---- MODULE Spec2Model ----
(***************************************************************************)
(* Entity stores of the tabs extension (Space, Collection, Tab) over the   *)
(* shared chrome.storage.local area, as state machines.                    *)
(*                                                                         *)
(* Every execution context (popup, new-tab page) has its own zustand       *)
(* stores (in-memory state); chrome.storage.local is shared by all         *)
(* contexts.  An async handler runs its synchronous prefix (read of the    *)
(* in-memory state, computation, the storage request) in one step and its  *)
(* continuation after the await (the set(...) of the in-memory state) in   *)
(* another; a caller that awaits each call sees the two as one step.       *)
(*                                                                         *)
(* Timestamps: nowISO() is new Date().toISOString(); the model keeps the   *)
(* instant itself (a natural number), since the stores only copy and never *)
(* parse the string.  Pass-through fields the stores never read (tags,     *)
(* meta, synced_at, icon, color) are left out; description stands for      *)
(* them.  An absent optional field (undefined) is NoVal; is_deleted is     *)
(* optional too, but the stores only test its truthiness (!x.is_deleted),  *)
(* so a record without the flag has is_deleted = FALSE.                    *)
(*                                                                         *)
(* The session store (auth-store.ts), the request gateway (client.ts) and  *)
(* the auth flows (auth.ts) are modelled with their awaits completed: one  *)
(* step per call.  The wall clock `now` is Date.now(); it starts at 1, a   *)
(* positive instant as every Date.now() is.  null and undefined are both   *)
(* NoVal; a missing expiry is NoExpiry, which the code cannot tell from 0  *)
(* (it tests the expiry for truthiness only).                              *)
(***************************************************************************)
EXTENDS Integers, Sequences, FiniteSets, TLC

VARIABLES
    store,      \* chrome.storage.local: key -> value, shared by all contexts
    mem,        \* mem[c]: the zustand stores of execution context c
    pending,    \* pending[c]: continuations of calls of c suspended at an await
    now,        \* the wall clock
    nextId,     \* the identifiers generateUUID() has handed out so far
    last,       \* the call that completed last and its outcome
    onlyAdds,   \* history: every call so far was an add or a load
    net,        \* the requests fetch() has sent, oldest first
    io          \* the storage and network calls of the operation that ran last

vars == <<store, mem, pending, now, nextId, last, onlyAdds, net, io>>

----------------------------------------------------------------------------
(* Bounds of the model *)

\* identifiers generateUUID() may hand out
MaxIds == 3
\* ticks of the wall clock in the runs of the entity stores
MaxTime == 1
\* tab-store.ts sets MAX_TABS_PER_COLLECTION = 1000; the model scales the
\* ceiling down so that a full Collection is reachable
MAX_TABS_PER_COLLECTION == 2
\* calls of one context that may be suspended at an await at the same time,
\* in the runs of two contexts
MaxPending == 1
\* the same, in the runs of one context whose caller does not await
MaxOverlap == 2

\* ticks of the wall clock in the runs of the session store
MaxClock == 3
\* requests fetch() may send in one run
MaxRequests == 2
\* Date.now() counts milliseconds, 1000 to the second (auth-store.ts,
\* date.ts); the model scales the second down so that an expiry is reachable
MsPerSecond == 2

Contexts == {1, 2}
Ids == 1..MaxIds
NoVal == "undefined"
NoId == 0
NoExpiry == 0
\* the parent references (collection_id, space_id) the callers pass
ParentIds == {1, 2}
Urls == {"https://a.test", "https://b.test", "https://c.test"}

\* CreateTabInput values: two display variants per URL and Collection
Display == {<<"A", NoVal, "desc">>, <<"A2", "fav", NoVal>>}

TabInput(c, u, d) ==
    [collection_id |-> c, url |-> u, title |-> d[1], favicon |-> d[2],
     description |-> d[3]]

\* every URL for Collection 1, and a Tab of Collection 2 with a URL that
\* Collection 1 has too
TabInputs ==
    {TabInput(1, u, <<"A", NoVal, "desc">>) : u \in Urls}
    \cup {TabInput(2, "https://a.test", <<"A", NoVal, "desc">>)}

\* two display variants per URL in Collection 1, and a Tab of Collection 2
\* with a URL that Collection 1 has too
RichTabInputs ==
    {TabInput(1, u, d) : u \in {"https://a.test", "https://b.test"}, d \in Display}
    \cup {TabInput(2, "https://a.test", <<"A", NoVal, "desc">>)}

\* the inputs of the two-context runs: two URLs for one Collection
CtxTabInputs ==
    {TabInput(1, u, <<"A", NoVal, "desc">>) : u \in {"https://a.test", "https://b.test"}}

\* UpdateTabInput values: any subset of the fields of a Tab; Tabs change
\* Collection towards Collection 1, by the collection_id patch and by moveTab
TabPatches == {[url |-> "https://a.test"], [collection_id |-> 1]}

MoveTargets == {1}

\* CreateCollectionInput and UpdateCollectionInput values
CollectionInputs == {[space_id |-> p, name |-> "Research"] : p \in ParentIds}
CollectionPatches == {[name |-> "Reading"], [order |-> 0]}

\* CreateSpaceInput and UpdateSpaceInput values
SpaceInputs == {[name |-> "Work"]}
SpacePatches == {[name |-> "Home"], [order |-> 0]}

\* the session inputs: users, access tokens, lifetimes in seconds
Users == {"u1"}
Tokens == {"t1", "t2"}
Ttls == {0, 1}

\* the inputs of the auth flows
Emails == {"a@x.test"}
Codes == {"123456"}
Passwords == {"secret"}
Purposes == {"register", "login", "reset_password"}

\* an AuthTokenResponse, as the JSON of a response body
TokenBody == [user |-> "u1", access_token |-> "t1", expires_in |-> 1]

\* the object {}
EmptyObject == <<>>

\* the statuses the remote service answers with
Statuses == {200, 201, 204, 404, 500}

\* what the remote service answers: a status and a body, which parses as
\* JSON or does not
Responses ==
    {[status |-> st, parsable |-> pb,
      body |-> IF pb THEN TokenBody ELSE EmptyObject] :
        st \in Statuses, pb \in BOOLEAN}

\* the endpoints of protected calls
ProtectedEndpoints == {"/api/v1/spaces"}

----------------------------------------------------------------------------
(* Array helpers *)

\* Array.prototype.findIndex((x) => x[field] === value): the first index
\* (1-based), 0 for -1
FindIndex(s, field, value) ==
    IF \E i \in 1..Len(s) : s[i][field] = value
    THEN CHOOSE i \in 1..Len(s) :
             s[i][field] = value /\ \A j \in 1..(i - 1) : s[j][field] # value
    ELSE 0

\* { ...rec, ...input }: the fields of input laid over rec
Spread(rec, input) ==
    [f \in DOMAIN rec \cup DOMAIN input |->
        IF f \in DOMAIN input THEN input[f] ELSE rec[f]]

\* Array.prototype.sort((a, b) => a.order - b.order): stable insertion by order
RECURSIVE InsertByOrder(_, _)
InsertByOrder(sorted, x) ==
    IF sorted = <<>> THEN <<x>>
    ELSE IF x.order < Head(sorted).order THEN <<x>> \o sorted
    ELSE <<Head(sorted)>> \o InsertByOrder(Tail(sorted), x)

RECURSIVE SortByOrder(_)
SortByOrder(s) ==
    IF s = <<>> THEN <<>>
    ELSE InsertByOrder(SortByOrder(SubSeq(s, 1, Len(s) - 1)), s[Len(s)])

\* filter((t) => !t.is_deleted)
NotDeleted(r) == ~r.is_deleted

\* faulty variant: the filter keeps the tombstones
Visible_KeepsAll(s) == s

Visible(s) == SelectSeq(s, NotDeleted)

\* what a handler does, as its caller and the storage area see it:
\*   status  "ok", or the error it throws
\*   write   <<list>> when it writes its entity list to storage, else <<>>
\*   set     <<list>> when its continuation sets the in-memory list, else <<>>
\*   ret     the identifier of the record it returns, else NoId
\*   created whether generateUUID() was called
Thrown(error) ==
    [status |-> error, write |-> <<>>, set |-> <<>>, ret |-> NoId, created |-> FALSE]

Returned(write, set, ret, created) ==
    [status |-> "ok", write |-> write, set |-> set, ret |-> ret, created |-> created]

\* generateUUID(): an identifier no record has yet
generateUUID == nextId

----------------------------------------------------------------------------
(* Tab store (tab-store.ts) *)

\* faulty variant: no not-found check; tabs[-1] is undefined and the list is written
\* back as it is
updateTab_NoCheck(tabs, id, input, t) ==
    LET index == FindIndex(tabs, "id", id) IN
    IF index = 0 THEN Returned(<<tabs>>, <<tabs>>, NoId, FALSE)
    ELSE LET updatedTab == [Spread(tabs[index], input) EXCEPT !.updated_at = t]
             updatedTabs == [tabs EXCEPT ![index] = updatedTab]
         IN  Returned(<<updatedTabs>>, <<updatedTabs>>, updatedTab.id, FALSE)

\* faulty variant: the creation timestamp is re-stamped too
updateTab_Restamps(tabs, id, input, t) ==
    LET index == FindIndex(tabs, "id", id) IN
    IF index = 0 THEN Thrown("Tab not found")
    ELSE LET updatedTab == [Spread(tabs[index], input) EXCEPT !.updated_at = t,
                                                              !.created_at = t]
             updatedTabs == [tabs EXCEPT ![index] = updatedTab]
         IN  Returned(<<updatedTabs>>, <<updatedTabs>>, updatedTab.id, FALSE)

\* updateTab: the record is looked up by id in the in-memory list
updateTab(tabs, id, input, t) ==
    LET index == FindIndex(tabs, "id", id) IN
    IF index = 0 THEN Thrown("Tab not found")
    ELSE LET updatedTab == [Spread(tabs[index], input) EXCEPT !.updated_at = t]
             updatedTabs == [tabs EXCEPT ![index] = updatedTab]
         IN  Returned(<<updatedTabs>>, <<updatedTabs>>, updatedTab.id, FALSE)

\* the record addTab builds
NewTab(input, order, t) ==
    [id |-> generateUUID,
     collection_id |-> input.collection_id,
     title |-> input.title,
     url |-> input.url,
     favicon |-> input.favicon,
     description |-> input.description,
     order |-> order,
     is_deleted |-> FALSE,
     created_at |-> t,
     updated_at |-> t]

\* faulty variant: the limit check lets one Tab too many in (> for >=)
addTab_LimitOffByOne(tabs, input, t) ==
    LET collectionTabs ==
            SelectSeq(tabs, LAMBDA x : x.collection_id = input.collection_id)
        existing == FindIndex(collectionTabs, "url", input.url)
        updatedTabs == Append(tabs, NewTab(input, Len(collectionTabs), t))
    IN  IF Len(collectionTabs) > MAX_TABS_PER_COLLECTION
        THEN Thrown("Collection already has MAX tabs")
        ELSE IF existing # 0
        THEN updateTab(tabs, collectionTabs[existing].id,
                       [title |-> input.title, favicon |-> input.favicon], t)
        ELSE Returned(<<updatedTabs>>, <<updatedTabs>>, generateUUID, TRUE)

\* faulty variant: order is the length of the whole list, not of the Collection's
addTab_GlobalOrder(tabs, input, t) ==
    LET collectionTabs ==
            SelectSeq(tabs, LAMBDA x : x.collection_id = input.collection_id)
        existing == FindIndex(collectionTabs, "url", input.url)
        updatedTabs == Append(tabs, NewTab(input, Len(tabs), t))
    IN  IF Len(collectionTabs) >= MAX_TABS_PER_COLLECTION
        THEN Thrown("Collection already has MAX tabs")
        ELSE IF existing # 0
        THEN updateTab(tabs, collectionTabs[existing].id,
                       [title |-> input.title, favicon |-> input.favicon], t)
        ELSE Returned(<<updatedTabs>>, <<updatedTabs>>, generateUUID, TRUE)

\* faulty variant: the merge lays the whole input over the existing Tab
addTab_MergesWholeInput(tabs, input, t) ==
    LET collectionTabs ==
            SelectSeq(tabs, LAMBDA x : x.collection_id = input.collection_id)
        existing == FindIndex(collectionTabs, "url", input.url)
        updatedTabs == Append(tabs, NewTab(input, Len(collectionTabs), t))
    IN  IF Len(collectionTabs) >= MAX_TABS_PER_COLLECTION
        THEN Thrown("Collection already has MAX tabs")
        ELSE IF existing # 0
        THEN updateTab(tabs, collectionTabs[existing].id, input, t)
        ELSE Returned(<<updatedTabs>>, <<updatedTabs>>, generateUUID, TRUE)

\* faulty variant: the duplicate-URL merge comes before the limit check
addTab_DedupFirst(tabs, input, t) ==
    LET collectionTabs ==
            SelectSeq(tabs, LAMBDA x : x.collection_id = input.collection_id)
        existing == FindIndex(collectionTabs, "url", input.url)
        newTab == NewTab(input, Len(collectionTabs), t)
        updatedTabs == Append(tabs, newTab)
    IN  IF existing # 0
        THEN updateTab(tabs, collectionTabs[existing].id,
                       [title |-> input.title, favicon |-> input.favicon], t)
        ELSE IF Len(collectionTabs) >= MAX_TABS_PER_COLLECTION
        THEN Thrown("Collection already has MAX tabs")
        ELSE Returned(<<updatedTabs>>, <<updatedTabs>>, newTab.id, TRUE)

\* addTab: limit check, then the duplicate-URL merge, then the append
addTab(tabs, input, t) ==
    LET collectionTabs ==
            SelectSeq(tabs, LAMBDA x : x.collection_id = input.collection_id)
        existing == FindIndex(collectionTabs, "url", input.url)
        newTab == NewTab(input, Len(collectionTabs), t)
        updatedTabs == Append(tabs, newTab)
    IN  IF Len(collectionTabs) >= MAX_TABS_PER_COLLECTION
        THEN Thrown("Collection already has MAX tabs")
        ELSE IF existing # 0
        THEN updateTab(tabs, collectionTabs[existing].id,
                       [title |-> input.title, favicon |-> input.favicon], t)
        ELSE Returned(<<updatedTabs>>, <<updatedTabs>>, newTab.id, TRUE)

\* faulty variant: the in-memory list keeps the tombstone
deleteTab_KeepsTombstone(tabs, id, t) ==
    LET index == FindIndex(tabs, "id", id)
        updatedTabs ==
            [i \in 1..Len(tabs) |->
                IF tabs[i].id = id
                THEN [tabs[i] EXCEPT !.is_deleted = TRUE, !.updated_at = t]
                ELSE tabs[i]]
    IN  IF index = 0 THEN Returned(<<>>, <<>>, NoId, FALSE)
        ELSE Returned(<<updatedTabs>>, <<updatedTabs>>, NoId, FALSE)

\* deleteTab: soft delete; the tombstone is written, the in-memory list drops it
deleteTab(tabs, id, t) ==
    LET index == FindIndex(tabs, "id", id)
        updatedTabs ==
            [i \in 1..Len(tabs) |->
                IF tabs[i].id = id
                THEN [tabs[i] EXCEPT !.is_deleted = TRUE, !.updated_at = t]
                ELSE tabs[i]]
    IN  IF index = 0 THEN Returned(<<>>, <<>>, NoId, FALSE)
        ELSE Returned(<<updatedTabs>>, <<Visible(updatedTabs)>>, NoId, FALSE)

\* faulty variant: the limit of the target is checked before the Tab is looked up
moveTab_LimitFirst(tabs, id, targetCollectionId, t) ==
    LET found == FindIndex(tabs, "id", id)
        targetCollectionTabs ==
            SelectSeq(tabs, LAMBDA x : x.collection_id = targetCollectionId)
    IN  IF Len(targetCollectionTabs) >= MAX_TABS_PER_COLLECTION
        THEN Thrown("Target collection already has MAX tabs")
        ELSE IF found = 0 THEN Thrown("Tab not found")
        ELSE [updateTab(tabs, id, [collection_id |-> targetCollectionId,
                                   order |-> Len(targetCollectionTabs)], t)
                EXCEPT !.ret = NoId]

\* moveTab: limit check on the target, then updateTab
moveTab(tabs, id, targetCollectionId, t) ==
    LET found == FindIndex(tabs, "id", id)
        targetCollectionTabs ==
            SelectSeq(tabs, LAMBDA x : x.collection_id = targetCollectionId)
    IN  IF found = 0 THEN Thrown("Tab not found")
        ELSE IF Len(targetCollectionTabs) >= MAX_TABS_PER_COLLECTION
        THEN Thrown("Target collection already has MAX tabs")
        ELSE [updateTab(tabs, id, [collection_id |-> targetCollectionId,
                                   order |-> Len(targetCollectionTabs)], t)
                EXCEPT !.ret = NoId]

\* faulty variant: the filtered list is returned in the sequence of the store
getTabsByCollection_Unsorted(tabs, collectionId) ==
    SelectSeq(tabs, LAMBDA x : x.collection_id = collectionId /\ ~x.is_deleted)

\* getTabsByCollection
getTabsByCollection(tabs, collectionId) ==
    SortByOrder(SelectSeq(tabs,
        LAMBDA x : x.collection_id = collectionId /\ ~x.is_deleted))

----------------------------------------------------------------------------
(* Collection store (collection-store.ts) *)

updateCollection(collections, id, input, t) ==
    LET index == FindIndex(collections, "id", id) IN
    IF index = 0 THEN Thrown("Collection not found")
    ELSE LET updatedCollection ==
                 [Spread(collections[index], input) EXCEPT !.updated_at = t]
             updatedCollections == [collections EXCEPT ![index] = updatedCollection]
         IN  Returned(<<updatedCollections>>, <<updatedCollections>>,
                      updatedCollection.id, FALSE)

addCollection(collections, input, t) ==
    LET spaceCollections ==
            SelectSeq(collections, LAMBDA x : x.space_id = input.space_id)
        newCollection == [id |-> generateUUID,
                          space_id |-> input.space_id,
                          name |-> input.name,
                          order |-> Len(spaceCollections),
                          view_mode |-> "list",
                          is_deleted |-> FALSE,
                          created_at |-> t,
                          updated_at |-> t]
        updatedCollections == Append(collections, newCollection)
    IN  Returned(<<updatedCollections>>, <<updatedCollections>>, newCollection.id, TRUE)

\* faulty variant: the Collections that remain are renumbered within their Space
deleteCollection_Renumbers(collections, id, t) ==
    LET index == FindIndex(collections, "id", id)
        marked ==
            [i \in 1..Len(collections) |->
                IF collections[i].id = id
                THEN [collections[i] EXCEPT !.is_deleted = TRUE, !.updated_at = t]
                ELSE collections[i]]
        updatedCollections ==
            [i \in 1..Len(marked) |->
                IF marked[i].is_deleted THEN marked[i]
                ELSE [marked[i] EXCEPT !.order =
                        Cardinality({j \in 1..(i - 1) :
                            /\ marked[j].space_id = marked[i].space_id
                            /\ ~marked[j].is_deleted})]]
    IN  IF index = 0 THEN Returned(<<>>, <<>>, NoId, FALSE)
        ELSE Returned(<<updatedCollections>>, <<Visible(updatedCollections)>>,
                      NoId, FALSE)

deleteCollection(collections, id, t) ==
    LET index == FindIndex(collections, "id", id)
        updatedCollections ==
            [i \in 1..Len(collections) |->
                IF collections[i].id = id
                THEN [collections[i] EXCEPT !.is_deleted = TRUE, !.updated_at = t]
                ELSE collections[i]]
    IN  IF index = 0 THEN Returned(<<>>, <<>>, NoId, FALSE)
        ELSE Returned(<<updatedCollections>>, <<Visible(updatedCollections)>>,
                      NoId, FALSE)

getCollectionsBySpace(collections, spaceId) ==
    SortByOrder(SelectSeq(collections,
        LAMBDA x : x.space_id = spaceId /\ ~x.is_deleted))

----------------------------------------------------------------------------
(* Space store (space-store.ts) *)

updateSpace(spaces, id, input, t) ==
    LET index == FindIndex(spaces, "id", id) IN
    IF index = 0 THEN Thrown("Space not found")
    ELSE LET updatedSpace == [Spread(spaces[index], input) EXCEPT !.updated_at = t]
             updatedSpaces == [spaces EXCEPT ![index] = updatedSpace]
         IN  Returned(<<updatedSpaces>>, <<updatedSpaces>>, updatedSpace.id, FALSE)

addSpace(spaces, input, t) ==
    LET newSpace == [id |-> generateUUID,
                     name |-> input.name,
                     order |-> Len(spaces),
                     is_deleted |-> FALSE,
                     created_at |-> t,
                     updated_at |-> t]
        updatedSpaces == Append(spaces, newSpace)
    IN  Returned(<<updatedSpaces>>, <<updatedSpaces>>, newSpace.id, TRUE)

deleteSpace(spaces, id, t) ==
    LET index == FindIndex(spaces, "id", id)
        updatedSpaces ==
            [i \in 1..Len(spaces) |->
                IF spaces[i].id = id
                THEN [spaces[i] EXCEPT !.is_deleted = TRUE, !.updated_at = t]
                ELSE spaces[i]]
    IN  IF index = 0 THEN Returned(<<>>, <<>>, NoId, FALSE)
        ELSE Returned(<<updatedSpaces>>, <<Visible(updatedSpaces)>>, NoId, FALSE)

\* spaces.find((s) => s.id === id) || null, as <<record>> or <<>>
FindSpace(spaces, id) ==
    LET index == FindIndex(spaces, "id", id) IN
    IF index = 0 THEN <<>> ELSE <<spaces[index]>>

\* setActiveSpace on the store state m of one context: the in-memory pointer
setActiveSpace(m, id) ==
    [m EXCEPT !.activeSpaceId = id, !.activeSpace = FindSpace(m.spaces, id)]

----------------------------------------------------------------------------
(* Calls *)

\* faulty variant: the write keeps the stored records that the written list lacks
Written_Merges(key, r) ==
    IF r.write = <<>> THEN store
    ELSE [store EXCEPT ![key] =
            SelectSeq(@, LAMBDA x : \A i \in 1..Len(r.write[1]) : r.write[1][i].id # x.id)
            \o r.write[1]]

\* the storage area after the handler's write of its entity list
Written(key, r) ==
    IF r.write = <<>> THEN store ELSE [store EXCEPT ![key] = r.write[1]]

\* the store state of a context after the handler's set({ [key]: list })
SetState(m, key, r) ==
    IF r.set = <<>> THEN m ELSE [m EXCEPT ![key] = r.set[1]]

Outcome(op, r) == [op |-> op, status |-> r.status]

\* one call of the storage area or of the network by an operation, and
\* whether it succeeded
IoCall(call, key, ok) == [call |-> call, key |-> key, ok |-> ok]

\* the storage write a handler issues
Writes(key, r) ==
    IF r.write = <<>> THEN <<>> ELSE <<IoCall("set", key, TRUE)>>

\* the unawaited write of the pointer key by setActiveSpace
PointerWrite == IoCall("set", "active_space_id", TRUE)

AddOps == {"addTab", "addCollection", "addSpace"}

\* The three stores share no state: no handler of one reads the in-memory
\* state or the storage key of another.  A behaviour exercises one of them.
Untouched(keys) ==
    /\ \A k \in keys : store[k] = <<>>
    /\ \A c \in Contexts, k \in keys : mem[c][k] = <<>>
    /\ "spaces" \in keys =>
         /\ store.active_space_id = NoId
         /\ \A c \in Contexts : mem[c].activeSpaceId = NoId

\* a call the caller awaits: the synchronous prefix, the storage write and the
\* continuation, with no other call of the context in between
Handled(c, key, op, r) ==
    /\ pending[c] = <<>>
    /\ r.created => nextId <= MaxIds
    /\ store' = Written(key, r)
    /\ mem' = [mem EXCEPT ![c] = SetState(@, key, r)]
    /\ nextId' = IF r.created THEN nextId + 1 ELSE nextId
    /\ last' = Outcome(op, r)
    /\ io' = Writes(key, r)
    /\ onlyAdds' = (onlyAdds /\ op \in AddOps)
    /\ UNCHANGED <<net, pending, now>>

\* an awaited call in a behaviour that exercises the one store of `key`
Awaited(c, key, op, r) ==
    /\ Untouched({"tabs", "collections", "spaces"} \ {key})
    /\ Handled(c, key, op, r)

\* a call up to its await: the synchronous prefix with the storage request;
\* a handler that throws or returns before the await is complete here
Call(c, key, op, r) ==
    /\ Untouched({"tabs", "collections", "spaces"} \ {key})
    /\ r.created => nextId <= MaxIds
    /\ store' = Written(key, r)
    /\ nextId' = IF r.created THEN nextId + 1 ELSE nextId
    /\ pending' = IF r.set = <<>> THEN pending
                  ELSE [pending EXCEPT ![c] = Append(@, [op |-> op, key |-> key, r |-> r])]
    /\ last' = IF r.set = <<>> THEN Outcome(op, r) ELSE last
    /\ io' = Writes(key, r)
    /\ onlyAdds' = (onlyAdds /\ op \in AddOps)
    /\ UNCHANGED <<net, mem, now>>

\* the continuation of the oldest suspended call of c: its set(...)
Settle(c) ==
    /\ pending[c] # <<>>
    /\ LET h == Head(pending[c]) IN
          /\ mem' = [mem EXCEPT ![c] = SetState(@, h.key, h.r)]
          /\ last' = Outcome(h.op, h.r)
    /\ pending' = [pending EXCEPT ![c] = Tail(@)]
    /\ UNCHANGED <<net, io, store, now, nextId, onlyAdds>>

\* faulty variant: the load keeps the deleted records
Load_Unfiltered(c, key, op) ==
    /\ pending[c] = <<>>
    /\ Untouched({"tabs", "collections", "spaces"} \ {key})
    /\ mem' = [mem EXCEPT ![c][key] = store[key],
                          ![c].isLoading[key] = FALSE,
                          ![c].error[key] = NoVal]
    /\ last' = [op |-> op, status |-> "ok"]
    /\ io' = <<IoCall("get", key, TRUE)>>
    /\ UNCHANGED <<net, store, pending, now, nextId, onlyAdds>>

\* loadTabs / loadCollections: the in-memory list becomes the stored records
\* that are not deleted
Load(c, key, op) ==
    /\ pending[c] = <<>>
    /\ Untouched({"tabs", "collections", "spaces"} \ {key})
    /\ mem' = [mem EXCEPT ![c][key] = Visible(store[key]),
                          ![c].isLoading[key] = FALSE,
                          ![c].error[key] = NoVal]
    /\ last' = [op |-> op, status |-> "ok"]
    /\ io' = <<IoCall("get", key, TRUE)>>
    /\ UNCHANGED <<net, store, pending, now, nextId, onlyAdds>>

LoadTabs(c) == Load(c, "tabs", "loadTabs")

AddTab(c, input) == Awaited(c, "tabs", "addTab", addTab(mem[c].tabs, input, now))

UpdateTab(c, id, input) ==
    Awaited(c, "tabs", "updateTab", updateTab(mem[c].tabs, id, input, now))

DeleteTab(c, id) == Awaited(c, "tabs", "deleteTab", deleteTab(mem[c].tabs, id, now))

MoveTab(c, id, target) ==
    Awaited(c, "tabs", "moveTab", moveTab(mem[c].tabs, id, target, now))

CallAddTab(c, input) == Call(c, "tabs", "addTab", addTab(mem[c].tabs, input, now))

LoadCollections(c) == Load(c, "collections", "loadCollections")

AddCollection(c, input) ==
    Awaited(c, "collections", "addCollection",
            addCollection(mem[c].collections, input, now))

UpdateCollection(c, id, input) ==
    Awaited(c, "collections", "updateCollection",
            updateCollection(mem[c].collections, id, input, now))

DeleteCollection(c, id) ==
    Awaited(c, "collections", "deleteCollection",
            deleteCollection(mem[c].collections, id, now))

\* a synchronous getter of context c: it returns a list computed from the
\* in-memory state
Getter(c, op, ret) ==
    /\ last' = [op |-> op, status |-> "ok", ret |-> ret]
    /\ io' = <<>>
    /\ UNCHANGED <<net, store, mem, pending, now, nextId, onlyAdds>>

GetTabsByCollection(c, collectionId) ==
    Getter(c, "getTabsByCollection", getTabsByCollection(mem[c].tabs, collectionId))

GetCollectionsBySpace(c, spaceId) ==
    Getter(c, "getCollectionsBySpace",
           getCollectionsBySpace(mem[c].collections, spaceId))

\* loadSpaces: the list as above; the pointer is read from storage and
\* activeSpace is looked up among all stored records
LoadSpaces(c) ==
    /\ pending[c] = <<>>
    /\ Untouched({"tabs", "collections"})
    /\ mem' = [mem EXCEPT ![c].spaces = Visible(store.spaces),
                          ![c].activeSpaceId = store.active_space_id,
                          ![c].activeSpace =
                              FindSpace(store.spaces, store.active_space_id),
                          ![c].isLoading.spaces = FALSE,
                          ![c].error.spaces = NoVal]
    /\ last' = [op |-> "loadSpaces", status |-> "ok"]
    /\ io' = <<IoCall("get", "spaces", TRUE)>>
    /\ UNCHANGED <<net, store, pending, now, nextId, onlyAdds>>

\* faulty variant: every new Space becomes the active one
AddSpace_AlwaysSelects(c, input) ==
    LET r == addSpace(mem[c].spaces, input, now)
        m == SetState(mem[c], "spaces", r)
    IN  /\ pending[c] = <<>>
        /\ Untouched({"tabs", "collections"})
        /\ nextId <= MaxIds
        /\ store' = [Written("spaces", r) EXCEPT !.active_space_id = r.ret]
        /\ mem' = [mem EXCEPT ![c] = setActiveSpace(m, r.ret)]
        /\ nextId' = nextId + 1
        /\ last' = Outcome("addSpace", r)
        /\ io' = Writes("spaces", r) \o <<PointerWrite>>
        /\ UNCHANGED <<net, pending, now, onlyAdds>>

\* addSpace: after the write, the first Space becomes the active one
AddSpaceCall(c, input) ==
    LET r == addSpace(mem[c].spaces, input, now)
        m == SetState(mem[c], "spaces", r)
        first == Len(r.set[1]) = 1
    IN  /\ pending[c] = <<>>
        /\ nextId <= MaxIds
        /\ store' = [Written("spaces", r) EXCEPT
                        !.active_space_id = IF first THEN r.ret ELSE @]
        /\ mem' = [mem EXCEPT ![c] = IF first THEN setActiveSpace(m, r.ret) ELSE m]
        /\ nextId' = nextId + 1
        /\ last' = Outcome("addSpace", r)
        /\ io' = Writes("spaces", r) \o (IF first THEN <<PointerWrite>> ELSE <<>>)
        /\ UNCHANGED <<net, pending, now, onlyAdds>>

\* addSpace in a behaviour that exercises the Space store alone
AddSpace(c, input) ==
    /\ Untouched({"tabs", "collections"})
    /\ AddSpaceCall(c, input)

\* updateSpace: activeSpace follows the record when it is the active one
UpdateSpace(c, id, input) ==
    LET r == updateSpace(mem[c].spaces, id, input, now)
        m == SetState(mem[c], "spaces", r)
        index == FindIndex(mem[c].spaces, "id", id)
    IN  /\ pending[c] = <<>>
        /\ Untouched({"tabs", "collections"})
        /\ store' = Written("spaces", r)
        /\ mem' = [mem EXCEPT ![c] =
                     IF r.status = "ok" /\ mem[c].activeSpaceId = id
                     THEN [m EXCEPT !.activeSpace = <<r.set[1][index]>>]
                     ELSE m]
        /\ last' = Outcome("updateSpace", r)
        /\ io' = Writes("spaces", r)
        /\ onlyAdds' = FALSE
        /\ UNCHANGED <<net, pending, now, nextId>>

\* faulty variant: the last visible Space becomes active
DeleteSpace_SelectsLast(c, id) ==
    LET r == deleteSpace(mem[c].spaces, id, now)
        m == SetState(mem[c], "spaces", r)
        wasActive == r.set # <<>> /\ mem[c].activeSpaceId = id
        visibleSpaces == r.set[1]
        next == wasActive /\ visibleSpaces # <<>>
        nextSpace == visibleSpaces[Len(visibleSpaces)]
    IN  /\ pending[c] = <<>>
        /\ Untouched({"tabs", "collections"})
        /\ store' = [Written("spaces", r) EXCEPT
                        !.active_space_id = IF next THEN nextSpace.id ELSE @]
        /\ mem' = [mem EXCEPT ![c] =
                     IF next THEN setActiveSpace(m, nextSpace.id)
                     ELSE IF wasActive
                     THEN [m EXCEPT !.activeSpaceId = NoId, !.activeSpace = <<>>]
                     ELSE m]
        /\ last' = Outcome("deleteSpace", r)
        /\ io' = Writes("spaces", r) \o (IF next THEN <<PointerWrite>> ELSE <<>>)
        /\ onlyAdds' = FALSE
        /\ UNCHANGED <<net, pending, now, nextId>>

\* faulty variant: the Collections of the deleted Space leave the in-memory list
DeleteSpaceCall_Cascades(c, id) ==
    LET r == deleteSpace(mem[c].spaces, id, now)
        m == [SetState(mem[c], "spaces", r) EXCEPT
                !.collections = SelectSeq(@, LAMBDA x : x.space_id # id)]
        wasActive == r.set # <<>> /\ mem[c].activeSpaceId = id
        visibleSpaces == r.set[1]
        next == wasActive /\ visibleSpaces # <<>>
    IN  /\ pending[c] = <<>>
        /\ store' = [Written("spaces", r) EXCEPT
                        !.active_space_id = IF next THEN visibleSpaces[1].id ELSE @]
        /\ mem' = [mem EXCEPT ![c] =
                     IF next THEN setActiveSpace(m, visibleSpaces[1].id)
                     ELSE IF wasActive
                     THEN [m EXCEPT !.activeSpaceId = NoId, !.activeSpace = <<>>]
                     ELSE m]
        /\ last' = Outcome("deleteSpace", r)
        /\ io' = Writes("spaces", r) \o (IF next THEN <<PointerWrite>> ELSE <<>>)
        /\ onlyAdds' = FALSE
        /\ UNCHANGED <<net, pending, now, nextId>>

\* deleteSpace: when the active Space (as read before the write) is the one
\* deleted, the first visible Space becomes active, or the in-memory pointer
\* is cleared
DeleteSpaceCall(c, id) ==
    LET r == deleteSpace(mem[c].spaces, id, now)
        m == SetState(mem[c], "spaces", r)
        wasActive == r.set # <<>> /\ mem[c].activeSpaceId = id
        visibleSpaces == r.set[1]
        next == wasActive /\ visibleSpaces # <<>>
    IN  /\ pending[c] = <<>>
        /\ store' = [Written("spaces", r) EXCEPT
                        !.active_space_id = IF next THEN visibleSpaces[1].id ELSE @]
        /\ mem' = [mem EXCEPT ![c] =
                     IF next THEN setActiveSpace(m, visibleSpaces[1].id)
                     ELSE IF wasActive
                     THEN [m EXCEPT !.activeSpaceId = NoId, !.activeSpace = <<>>]
                     ELSE m]
        /\ last' = Outcome("deleteSpace", r)
        /\ io' = Writes("spaces", r) \o (IF next THEN <<PointerWrite>> ELSE <<>>)
        /\ onlyAdds' = FALSE
        /\ UNCHANGED <<net, pending, now, nextId>>

\* deleteSpace in a behaviour that exercises the Space store alone
DeleteSpace(c, id) ==
    /\ Untouched({"tabs", "collections"})
    /\ DeleteSpaceCall(c, id)

\* setActiveSpace: the pointer is written to storage and set in memory
SetActiveSpace(c, id) ==
    /\ pending[c] = <<>>
    /\ Untouched({"tabs", "collections"})
    /\ store' = [store EXCEPT !.active_space_id = id]
    /\ mem' = [mem EXCEPT ![c] = setActiveSpace(@, id)]
    /\ last' = [op |-> "setActiveSpace", status |-> "ok"]
    /\ io' = <<PointerWrite>>
    /\ onlyAdds' = FALSE
    /\ UNCHANGED <<net, pending, now, nextId>>

\* setActiveSpace with the id of a Space of the list, as a click on a Space
\* of the sidebar calls it
SelectSpace(c, id) ==
    /\ \E i \in 1..Len(mem[c].spaces) : mem[c].spaces[i].id = id
    /\ SetActiveSpace(c, id)

\* the wall clock advances
Tick ==
    /\ now <= MaxTime
    /\ now' = now + 1
    /\ UNCHANGED <<net, io, store, mem, pending, nextId, last, onlyAdds>>

\* the wall clock advances, in the runs of the session store
Elapse ==
    /\ now <= MaxClock
    /\ now' = now + 1
    /\ UNCHANGED <<net, io, store, mem, pending, nextId, last, onlyAdds>>

----------------------------------------------------------------------------
(* Session store (auth-store.ts) *)

\* isTokenExpired, on the session state `auth` of a context at the instant t
isTokenExpired(auth, t) ==
    IF auth.token_expires_at = NoExpiry THEN TRUE
    ELSE t > auth.token_expires_at

\* what a session operation leaves: the session state of its context and
\* the storage area, and its calls of the storage area
Session(auth, st, calls) == [auth |-> auth, store |-> st, io |-> calls]

\* faulty variant: logout clears the in-memory session only
logout_KeepsStored(auth, st) ==
    Session([auth EXCEPT !.user = NoVal,
                         !.access_token = NoVal,
                         !.token_expires_at = NoExpiry,
                         !.is_authenticated = FALSE],
            st,
            <<IoCall("remove", "auth", TRUE)>>)

\* logout: the three keys are removed, the in-memory session is cleared
logout(auth, st) ==
    Session([auth EXCEPT !.user = NoVal,
                         !.access_token = NoVal,
                         !.token_expires_at = NoExpiry,
                         !.is_authenticated = FALSE],
            [st EXCEPT !.auth_user = NoVal,
                       !.auth_token = NoVal,
                       !.token_expires_at = NoExpiry],
            <<IoCall("remove", "auth", TRUE)>>)

\* loadAuth: the stored triple is read; a triple past its expiry is logged
\* out (and the call returns with is_loading still set)
loadAuth(auth, st, t) ==
    LET loading == [auth EXCEPT !.is_loading = TRUE]
        user == st.auth_user
        accessToken == st.auth_token
        tokenExpiresAt == st.token_expires_at
    IN  IF tokenExpiresAt # NoExpiry /\ t > tokenExpiresAt
        THEN [logout(loading, st) EXCEPT !.io = <<IoCall("get", "auth", TRUE)>> \o @]
        ELSE Session([user |-> user,
                      access_token |-> accessToken,
                      token_expires_at |-> tokenExpiresAt,
                      is_authenticated |-> (user # NoVal /\ accessToken # NoVal),
                      is_loading |-> FALSE],
                     st,
                     <<IoCall("get", "auth", TRUE)>>)

\* faulty variant: the lifetime in seconds is added to the milliseconds as
\* it is
setAuth_SecondsAsMs(auth, st, user, accessToken, expiresIn, t) ==
    LET tokenExpiresAt == t + expiresIn
    IN  Session([auth EXCEPT !.user = user,
                             !.access_token = accessToken,
                             !.token_expires_at = tokenExpiresAt,
                             !.is_authenticated = TRUE],
                [st EXCEPT !.auth_user = user,
                           !.auth_token = accessToken,
                           !.token_expires_at = tokenExpiresAt],
                <<IoCall("set", "auth", TRUE)>>)

\* setAuth: the expiry is computed at the call, the triple is stored, the
\* in-memory session is set
setAuth(auth, st, user, accessToken, expiresIn, t) ==
    LET tokenExpiresAt == t + expiresIn * MsPerSecond
    IN  Session([auth EXCEPT !.user = user,
                             !.access_token = accessToken,
                             !.token_expires_at = tokenExpiresAt,
                             !.is_authenticated = TRUE],
                [st EXCEPT !.auth_user = user,
                           !.auth_token = accessToken,
                           !.token_expires_at = tokenExpiresAt],
                <<IoCall("set", "auth", TRUE)>>)

\* a session operation of context c, awaited
SessionCall(c, op, r) ==
    /\ mem' = [mem EXCEPT ![c].auth = r.auth]
    /\ store' = r.store
    /\ last' = [op |-> op, status |-> "ok"]
    /\ io' = r.io
    /\ UNCHANGED <<net, pending, now, nextId, onlyAdds>>

LoadAuth(c) == SessionCall(c, "loadAuth", loadAuth(mem[c].auth, store, now))

SetAuth(c, user, accessToken, expiresIn) ==
    SessionCall(c, "setAuth",
                setAuth(mem[c].auth, store, user, accessToken, expiresIn, now))

Logout(c) == SessionCall(c, "logout", logout(mem[c].auth, store))

----------------------------------------------------------------------------
(* Calls of the storage area that reject *)

\* the rejection of a chrome.storage.local call, as the caller of a handler
\* that does not catch it sees it
StorageError == "storage error"

\* the error flag a load sets in its catch branch
LoadError(key) ==
    CASE key = "tabs" -> "Failed to load tabs"
      [] key = "collections" -> "Failed to load collections"
      [] key = "spaces" -> "Failed to load spaces"

\* loadTabs / loadCollections / loadSpaces when the read rejects: the catch
\* branch sets the error flag and resets isLoading
LoadFails(c, key, op) ==
    /\ pending[c] = <<>>
    /\ Untouched({"tabs", "collections", "spaces"} \ {key})
    /\ mem' = [mem EXCEPT ![c].isLoading[key] = FALSE,
                          ![c].error[key] = LoadError(key)]
    /\ last' = [op |-> op, status |-> "ok"]
    /\ io' = <<IoCall("get", key, FALSE)>>
    /\ UNCHANGED <<net, store, pending, now, nextId, onlyAdds>>

\* faulty variant: a write that rejects is issued again
AwaitedFails_Retries(c, key, op, r) ==
    /\ pending[c] = <<>>
    /\ Untouched({"tabs", "collections", "spaces"} \ {key})
    /\ r.write # <<>>
    /\ r.created => nextId <= MaxIds
    /\ store' = Written(key, r)
    /\ mem' = [mem EXCEPT ![c] = SetState(@, key, r)]
    /\ nextId' = IF r.created THEN nextId + 1 ELSE nextId
    /\ last' = Outcome(op, r)
    /\ io' = <<IoCall("set", key, FALSE), IoCall("set", key, TRUE)>>
    /\ onlyAdds' = (onlyAdds /\ op \in AddOps)
    /\ UNCHANGED <<net, pending, now>>

\* an awaited call whose write of the entity list rejects: the handler
\* throws at its await, before its set(...); the identifier it drew is in
\* no record and is not counted as handed out
AwaitedFails(c, key, op, r) ==
    /\ pending[c] = <<>>
    /\ Untouched({"tabs", "collections", "spaces"} \ {key})
    /\ r.write # <<>>
    /\ r.created => nextId <= MaxIds
    /\ last' = [op |-> op, status |-> StorageError]
    /\ io' = <<IoCall("set", key, FALSE)>>
    /\ onlyAdds' = (onlyAdds /\ op \in AddOps)
    /\ UNCHANGED <<net, store, mem, pending, now, nextId>>

\* the calls of the Tab store whose write rejects
TabCallsFail(c) ==
    \/ \E input \in TabInputs :
          AwaitedFails(c, "tabs", "addTab", addTab(mem[c].tabs, input, now))
    \/ \E id \in Ids, input \in TabPatches :
          AwaitedFails(c, "tabs", "updateTab", updateTab(mem[c].tabs, id, input, now))
    \/ \E id \in Ids :
          AwaitedFails(c, "tabs", "deleteTab", deleteTab(mem[c].tabs, id, now))

\* the calls of the Collection store whose write rejects
CollectionCallsFail(c) ==
    \/ \E input \in CollectionInputs :
          AwaitedFails(c, "collections", "addCollection",
                       addCollection(mem[c].collections, input, now))
    \/ \E id \in Ids, input \in CollectionPatches :
          AwaitedFails(c, "collections", "updateCollection",
                       updateCollection(mem[c].collections, id, input, now))
    \/ \E id \in Ids :
          AwaitedFails(c, "collections", "deleteCollection",
                       deleteCollection(mem[c].collections, id, now))

\* the calls of the Space store whose write of the Space list rejects
SpaceCallsFail(c) ==
    \/ \E input \in SpaceInputs :
          AwaitedFails(c, "spaces", "addSpace", addSpace(mem[c].spaces, input, now))
    \/ \E id \in Ids, input \in SpacePatches :
          AwaitedFails(c, "spaces", "updateSpace",
                       updateSpace(mem[c].spaces, id, input, now))
    \/ \E id \in Ids :
          AwaitedFails(c, "spaces", "deleteSpace", deleteSpace(mem[c].spaces, id, now))

\* addSpace of a first Space when the write of the Space list succeeds and
\* the write of the pointer key by setActiveSpace, which is not awaited,
\* rejects: the rejection reaches no caller
AddSpacePointerFails(c, input) ==
    LET r == addSpace(mem[c].spaces, input, now)
        m == SetState(mem[c], "spaces", r)
    IN  /\ pending[c] = <<>>
        /\ Untouched({"tabs", "collections"})
        /\ nextId <= MaxIds
        /\ Len(r.set[1]) = 1
        /\ store' = Written("spaces", r)
        /\ mem' = [mem EXCEPT ![c] = setActiveSpace(m, r.ret)]
        /\ nextId' = nextId + 1
        /\ last' = Outcome("addSpace", r)
        /\ io' = Writes("spaces", r) \o <<IoCall("set", "active_space_id", FALSE)>>
        /\ UNCHANGED <<net, pending, now, onlyAdds>>

\* deleteSpace of the active Space, another Space remaining, when the write
\* of the pointer key rejects
DeleteSpacePointerFails(c, id) ==
    LET r == deleteSpace(mem[c].spaces, id, now)
        m == SetState(mem[c], "spaces", r)
        visibleSpaces == r.set[1]
    IN  /\ pending[c] = <<>>
        /\ Untouched({"tabs", "collections"})
        /\ r.set # <<>>
        /\ mem[c].activeSpaceId = id
        /\ visibleSpaces # <<>>
        /\ store' = Written("spaces", r)
        /\ mem' = [mem EXCEPT ![c] = setActiveSpace(m, visibleSpaces[1].id)]
        /\ last' = Outcome("deleteSpace", r)
        /\ io' = Writes("spaces", r) \o <<IoCall("set", "active_space_id", FALSE)>>
        /\ onlyAdds' = FALSE
        /\ UNCHANGED <<net, pending, now, nextId>>

\* loadAuth's catch branch: the failure is logged and is_loading is reset
loadAuthCaught(auth, st, calls) ==
    Session([auth EXCEPT !.is_loading = FALSE], st, calls)

\* loadAuth when the read of the stored triple rejects
LoadAuthFails(c) ==
    SessionCall(c, "loadAuth",
                loadAuthCaught(mem[c].auth, store, <<IoCall("get", "auth", FALSE)>>))

\* loadAuth when the stored triple is past its expiry and the removal of the
\* keys by logout rejects
LoadAuthLogoutFails(c) ==
    /\ store.token_expires_at # NoExpiry
    /\ now > store.token_expires_at
    /\ SessionCall(c, "loadAuth",
                   loadAuthCaught(mem[c].auth, store,
                                  <<IoCall("get", "auth", TRUE),
                                    IoCall("remove", "auth", FALSE)>>))

\* setAuth / logout when the storage call rejects: the handler throws at its
\* await, before its set(...)
SessionCallFails(c, op, call) ==
    /\ last' = [op |-> op, status |-> StorageError]
    /\ io' = <<IoCall(call, "auth", FALSE)>>
    /\ UNCHANGED <<net, store, mem, pending, now, nextId, onlyAdds>>

SetAuthFails(c, user, accessToken, expiresIn) == SessionCallFails(c, "setAuth", "set")

LogoutFails(c) == SessionCallFails(c, "logout", "remove")

----------------------------------------------------------------------------
(* Request gateway (client.ts) *)

AuthRequired == "API Error: 401"

\* the message of the ApiError for a response status that is not ok
ApiError(status) ==
    CASE status = 500 -> "API Error: 500"
      [] status = 404 -> "API Error: 404"
      [] status = 401 -> AuthRequired
      [] OTHER -> "API Error"

\* faulty variant: the gate looks at the token only, not at its expiry
authorize_TokenOnly(auth, t, requiresAuth) ==
    IF requiresAuth /\ auth.access_token = NoVal
    THEN [send |-> FALSE, authorization |-> NoVal]
    ELSE [send |-> TRUE,
          authorization |-> IF requiresAuth THEN auth.access_token ELSE NoVal]

\* request, up to fetch: whether the request is sent, and the token of its
\* Authorization header (NoVal: no such header)
authorize(auth, t, requiresAuth) ==
    IF requiresAuth /\ (auth.access_token = NoVal \/ isTokenExpired(auth, t))
    THEN [send |-> FALSE, authorization |-> NoVal]
    ELSE [send |-> TRUE,
          authorization |-> IF requiresAuth THEN auth.access_token ELSE NoVal]

\* the body of the ApiError of the gate
NotAuthenticated == [message |-> "Not authenticated"]

\* response.ok
ok(response) == response.status \in 200..299

\* the rejection of response.json() for a body that is not JSON
SyntaxError == "SyntaxError"

\* faulty variant: the body is parsed whatever the status
respond_ParsesAlways(response) ==
    IF ~ok(response)
    THEN [status |-> ApiError(response.status),
          data |-> IF response.parsable THEN response.body ELSE EmptyObject]
    ELSE IF response.parsable
    THEN [status |-> "ok", data |-> response.body]
    ELSE [status |-> SyntaxError, data |-> EmptyObject]

\* request, after fetch: the mapping of the response to a result or an error
respond(response) ==
    IF ~ok(response)
    THEN [status |-> ApiError(response.status),
          data |-> IF response.parsable THEN response.body ELSE EmptyObject]
    ELSE IF response.status = 204
    THEN [status |-> "ok", data |-> EmptyObject]
    ELSE IF response.parsable
    THEN [status |-> "ok", data |-> response.body]
    ELSE [status |-> SyntaxError, data |-> EmptyObject]

\* request: the gate, fetch, and the mapping of the response
Request(c, op, endpoint, data, requiresAuth, response) ==
    LET g == authorize(mem[c].auth, now, requiresAuth)
    IN  /\ g.send => Len(net) < MaxRequests
        /\ net' = IF g.send
                  THEN Append(net, [endpoint |-> endpoint,
                                    authorization |-> g.authorization,
                                    body |-> data])
                  ELSE net
        /\ io' = IF g.send THEN <<IoCall("fetch", endpoint, TRUE)>> ELSE <<>>
        /\ last' = IF g.send
                    THEN [op |-> op, status |-> respond(response).status,
                          data |-> respond(response).data]
                    ELSE [op |-> op, status |-> AuthRequired,
                          data |-> NotAuthenticated]

\* a protected call of the API
ProtectedRequest(c, endpoint, response) ==
    /\ Request(c, "request", endpoint, <<>>, TRUE, response)
    /\ UNCHANGED <<store, mem, pending, now, nextId, onlyAdds>>

\* a call of the API that needs no session
PublicRequest(c, endpoint, response) ==
    /\ Request(c, "request", endpoint, <<>>, FALSE, response)
    /\ UNCHANGED <<store, mem, pending, now, nextId, onlyAdds>>

\* the rejection of fetch when the network fails
NetworkError == "TypeError"

\* request, when fetch rejects: nothing catches the rejection
RequestFails(c, endpoint, requiresAuth) ==
    /\ authorize(mem[c].auth, now, requiresAuth).send
    /\ io' = <<IoCall("fetch", endpoint, FALSE)>>
    /\ last' = [op |-> "request", status |-> NetworkError,
                data |-> EmptyObject]
    /\ UNCHANGED <<net, store, mem, pending, now, nextId, onlyAdds>>

----------------------------------------------------------------------------
(* Signed request protocol and auth flows (signature.ts, date.ts, auth.ts) *)

SIGNATURE_SECRET == "default_secret_key"

\* a nonce no earlier call has drawn
generateNonce == nextId

\* the wall clock in whole seconds
nowUnix == now \div MsPerSecond

\* the keyed hash of the message email:nonce:authAt:purpose, kept as the
\* key and the message it is computed from (no two messages collide)
generateSignature(email, nonce, authAt, purpose) ==
    <<SIGNATURE_SECRET, email, nonce, authAt, purpose>>

\* faulty variant: the nonce is drawn once and kept for every call
Signed_CachedNonce(email, purpose) ==
    LET nonce == 1
        authAt == nowUnix
    IN  [nonce |-> nonce,
         auth_at |-> authAt,
         signature |-> generateSignature(email, nonce, authAt, purpose)]

\* faulty variant: every flow signs with the purpose of the login flow
Signed_LoginPurpose(email, purpose) ==
    LET nonce == generateNonce
        authAt == nowUnix
    IN  [nonce |-> nonce,
         auth_at |-> authAt,
         signature |-> generateSignature(email, nonce, authAt, "login")]

\* the first three statements of every flow: nonce, timestamp, signature
Signed(email, purpose) ==
    LET nonce == generateNonce
        authAt == nowUnix
    IN  [nonce |-> nonce,
         auth_at |-> authAt,
         signature |-> generateSignature(email, nonce, authAt, purpose)]

SEND_VERIFICATION_CODE == "/auth/v1/verification-code/send"
REGISTER == "/auth/v1/register"
LOGIN_WITH_CODE == "/auth/v1/login/verification-code"

AuthEndpoints == {SEND_VERIFICATION_CODE, REGISTER, LOGIN_WITH_CODE}

SendVerificationCode(c, email, purpose, response) ==
    LET sg == Signed(email, purpose)
    IN  /\ Request(c, "sendVerificationCode", SEND_VERIFICATION_CODE,
                   [email |-> email,
                    purpose |-> purpose,
                    nonce |-> sg.nonce,
                    auth_at |-> sg.auth_at,
                    signature |-> sg.signature],
                   FALSE, response)
        /\ nextId' = nextId + 1
        /\ UNCHANGED <<store, mem, pending, now, onlyAdds>>

LoginWithVerificationCode(c, email, code, response) ==
    LET sg == Signed(email, "login")
    IN  /\ Request(c, "loginWithVerificationCode", LOGIN_WITH_CODE,
                   [email |-> email,
                    code |-> code,
                    nonce |-> sg.nonce,
                    auth_at |-> sg.auth_at,
                    signature |-> sg.signature],
                   FALSE, response)
        /\ nextId' = nextId + 1
        /\ UNCHANGED <<store, mem, pending, now, onlyAdds>>

Register(c, email, code, password, response) ==
    LET sg == Signed(email, "register")
    IN  /\ Request(c, "register", REGISTER,
                   [email |-> email,
                    code |-> code,
                    password |-> password,
                    nonce |-> sg.nonce,
                    auth_at |-> sg.auth_at,
                    signature |-> sg.signature],
                   FALSE, response)
        /\ nextId' = nextId + 1
        /\ UNCHANGED <<store, mem, pending, now, onlyAdds>>

----------------------------------------------------------------------------
(* Specifications *)

StoreKeys == {"tabs", "collections", "spaces"}

\* the store states create(...) builds
InitMem ==
    [tabs |-> <<>>, collections |-> <<>>, spaces |-> <<>>,
     activeSpaceId |-> NoId, activeSpace |-> <<>>,
     isLoading |-> [k \in StoreKeys |-> FALSE],
     error |-> [k \in StoreKeys |-> NoVal],
     auth |-> [user |-> NoVal, access_token |-> NoVal,
               token_expires_at |-> NoExpiry, is_authenticated |-> FALSE,
               is_loading |-> TRUE]]

\* a fresh profile: nothing stored, every context loaded from it
Init ==
    /\ store = [tabs |-> <<>>, collections |-> <<>>, spaces |-> <<>>,
                active_space_id |-> NoId,
                auth_user |-> NoVal, auth_token |-> NoVal,
                token_expires_at |-> NoExpiry]
    /\ mem = [c \in Contexts |-> InitMem]
    /\ pending = [c \in Contexts |-> <<>>]
    /\ now = 1
    /\ nextId = 1
    /\ last = [op |-> "none", status |-> "ok"]
    /\ onlyAdds = TRUE
    /\ net = <<>>
    /\ io = <<>>

TabCalls(c, inputs, patches) ==
    \/ LoadTabs(c)
    \/ \E input \in inputs : AddTab(c, input)
    \/ \E id \in Ids, input \in patches : UpdateTab(c, id, input)
    \/ \E id \in Ids : DeleteTab(c, id)
    \/ \E id \in Ids, target \in MoveTargets : MoveTab(c, id, target)

CollectionCalls(c) ==
    \/ LoadCollections(c)
    \/ \E input \in CollectionInputs : AddCollection(c, input)
    \/ \E id \in Ids, input \in CollectionPatches : UpdateCollection(c, id, input)
    \/ \E id \in Ids : DeleteCollection(c, id)

SpaceCalls(c) ==
    \/ LoadSpaces(c)
    \/ \E input \in SpaceInputs : AddSpace(c, input)
    \/ \E id \in Ids, input \in SpacePatches : UpdateSpace(c, id, input)
    \/ \E id \in Ids : DeleteSpace(c, id)
    \/ \E id \in Ids : SetActiveSpace(c, id)

\* one context, every call awaited, all calls at one instant
Next ==
    \/ TabCalls(1, TabInputs, TabPatches)
    \/ CollectionCalls(1)
    \/ SpaceCalls(1)

Spec == Init /\ [][Next]_vars

\* the Tab store of one context with the clock running: adds with display
\* variants, and deletes
NextMerge ==
    \/ Tick
    \/ \E input \in RichTabInputs : AddTab(1, input)
    \/ \E id \in Ids : DeleteTab(1, id)

SpecMerge == Init /\ [][NextMerge]_vars

\* two contexts over the one storage area: the calls of the two interleave at
\* their awaits
NextCtx ==
    \E c \in Contexts :
        \/ LoadTabs(c)
        \/ Len(pending[c]) < MaxPending
              /\ \E input \in CtxTabInputs : CallAddTab(c, input)
        \/ Settle(c)

SpecCtx == Init /\ [][NextCtx]_vars

\* two contexts over the one storage area, taking turns: every call is
\* complete before the next starts, and no context loads again after the
\* load of its start
NextTurns ==
    \E c \in Contexts :
        \/ \E input \in CtxTabInputs : AddTab(c, input)
        \/ \E id \in Ids, input \in TabPatches : UpdateTab(c, id, input)
        \/ \E id \in Ids : DeleteTab(c, id)

SpecTurns == Init /\ [][NextTurns]_vars

\* one context with the clock running: adds and updates of the three stores
NextUpdate ==
    \/ Tick
    \/ \E input \in TabInputs : AddTab(1, input)
    \/ \E id \in Ids, input \in TabPatches : UpdateTab(1, id, input)
    \/ \E input \in CollectionInputs : AddCollection(1, input)
    \/ \E id \in Ids, input \in CollectionPatches : UpdateCollection(1, id, input)
    \/ \E input \in SpaceInputs : AddSpace(1, input)
    \/ \E id \in Ids, input \in SpacePatches : UpdateSpace(1, id, input)

SpecUpdate == Init /\ [][NextUpdate]_vars

\* one context whose caller does not await: a call may start while earlier
\* calls of the context are suspended at their awaits
NextOverlap ==
    \/ LoadTabs(1)
    \/ Len(pending[1]) < MaxOverlap
          /\ \E input \in TabInputs : CallAddTab(1, input)
    \/ Settle(1)

SpecOverlap == Init /\ [][NextOverlap]_vars

\* the Tab store and the Collection store of one context, with their getters
NextList ==
    \/ TabCalls(1, TabInputs, TabPatches)
    \/ CollectionCalls(1)
    \/ \E collectionId \in ParentIds : GetTabsByCollection(1, collectionId)
    \/ \E spaceId \in ParentIds : GetCollectionsBySpace(1, spaceId)

SpecList == Init /\ [][NextList]_vars

\* the three entity stores of one context side by side: Spaces, their
\* Collections and the Tabs of these, every add and every delete
NextCascade ==
    \/ \E input \in SpaceInputs : AddSpaceCall(1, input)
    \/ \E input \in CollectionInputs :
          Handled(1, "collections", "addCollection",
                  addCollection(mem[1].collections, input, now))
    \/ \E input \in TabInputs :
          Handled(1, "tabs", "addTab", addTab(mem[1].tabs, input, now))
    \/ \E id \in Ids : DeleteSpaceCall(1, id)
    \/ \E id \in Ids :
          Handled(1, "collections", "deleteCollection",
                  deleteCollection(mem[1].collections, id, now))
    \/ \E id \in Ids :
          Handled(1, "tabs", "deleteTab", deleteTab(mem[1].tabs, id, now))
    \/ \E spaceId \in ParentIds : GetCollectionsBySpace(1, spaceId)

SpecCascade == Init /\ [][NextCascade]_vars

\* the entity stores of one context over a storage area whose calls may
\* reject
NextFaults ==
    \/ LoadTabs(1)
    \/ \E input \in TabInputs : AddTab(1, input)
    \/ \E id \in Ids : DeleteTab(1, id)
    \/ LoadCollections(1)
    \/ \E input \in CollectionInputs : AddCollection(1, input)
    \/ \E id \in Ids : DeleteCollection(1, id)
    \/ LoadSpaces(1)
    \/ \E input \in SpaceInputs : AddSpace(1, input)
    \/ \E id \in Ids : DeleteSpace(1, id)
    \/ LoadFails(1, "tabs", "loadTabs")
    \/ LoadFails(1, "collections", "loadCollections")
    \/ LoadFails(1, "spaces", "loadSpaces")
    \/ TabCallsFail(1)
    \/ CollectionCallsFail(1)
    \/ SpaceCallsFail(1)
    \/ \E input \in SpaceInputs : AddSpacePointerFails(1, input)
    \/ \E id \in Ids : DeleteSpacePointerFails(1, id)

SpecFaults == Init /\ [][NextFaults]_vars

\* the calls of one context, over a storage area whose writes may reject
\* and a network whose requests may fail
NextCalls ==
    \/ Next
    \/ TabCallsFail(1)
    \/ CollectionCallsFail(1)
    \/ SpaceCallsFail(1)
    \/ \E endpoint \in ProtectedEndpoints, response \in Responses :
          PublicRequest(1, endpoint, response)
    \/ \E endpoint \in ProtectedEndpoints : RequestFails(1, endpoint, FALSE)

SpecCalls == Init /\ [][NextCalls]_vars

\* the Space store of one context: adds, deletes, loads, and selections of
\* Spaces that are in the list
NextPointer ==
    \/ LoadSpaces(1)
    \/ \E input \in SpaceInputs : AddSpace(1, input)
    \/ \E id \in Ids : DeleteSpace(1, id)
    \/ \E id \in Ids : SelectSpace(1, id)

SpecPointer == Init /\ [][NextPointer]_vars

\* the session store of one context over a storage area whose calls may
\* reject, and the clock
NextAuthFaults ==
    \/ Elapse
    \/ LoadAuth(1)
    \/ \E user \in Users, accessToken \in Tokens, expiresIn \in Ttls :
          SetAuth(1, user, accessToken, expiresIn)
    \/ Logout(1)
    \/ LoadAuthFails(1)
    \/ LoadAuthLogoutFails(1)
    \/ \E user \in Users, accessToken \in Tokens, expiresIn \in Ttls :
          SetAuthFails(1, user, accessToken, expiresIn)
    \/ LogoutFails(1)

SpecAuthFaults == Init /\ [][NextAuthFaults]_vars

\* the session store of two contexts, the gateway and the clock
NextAuth ==
    \/ Elapse
    \/ \E c \in Contexts :
          \/ LoadAuth(c)
          \/ \E user \in Users, accessToken \in Tokens, expiresIn \in Ttls :
                SetAuth(c, user, accessToken, expiresIn)
          \/ Logout(c)
          \/ \E endpoint \in ProtectedEndpoints, response \in Responses :
                ProtectedRequest(c, endpoint, response)

SpecAuth == Init /\ [][NextAuth]_vars

\* the auth flows of one context, followed by protected calls
NextFlows ==
    \/ Elapse
    \/ LoadAuth(1)
    \/ \E email \in Emails, purpose \in Purposes, response \in Responses :
          SendVerificationCode(1, email, purpose, response)
    \/ \E email \in Emails, code \in Codes, response \in Responses :
          LoginWithVerificationCode(1, email, code, response)
    \/ \E email \in Emails, code \in Codes, password \in Passwords,
          response \in Responses :
          Register(1, email, code, password, response)
    \/ \E endpoint \in ProtectedEndpoints, response \in Responses :
          ProtectedRequest(1, endpoint, response)

SpecFlows == Init /\ [][NextFlows]_vars

----------------------------------------------------------------------------
(* Properties: helpers *)

IdsOf(list) == {list[i].id : i \in 1..Len(list)}

\* the records of a list that are not deleted and have the given parent
LiveTabsIn(list, p) == SelectSeq(list, LAMBDA x : x.collection_id = p /\ ~x.is_deleted)
LiveCollectionsIn(list, p) == SelectSeq(list, LAMBDA x : x.space_id = p /\ ~x.is_deleted)

IsTombstone(list, id) == \E i \in 1..Len(list) : list[i].id = id /\ list[i].is_deleted

LastOf(list) == list[Len(list)]

CapacityError == "Collection already has MAX tabs"

----------------------------------------------------------------------------
(* Properties of the awaited calls of one context (Spec) *)

\* C1: no two non-deleted Tabs of one Collection have the same URL, in the
\* stored list and in the in-memory list, after any sequence of calls.
C1_UrlUnique ==
    \A list \in {store.tabs, mem[1].tabs} :
        \A i, j \in 1..Len(list) :
            (i # j /\ ~list[i].is_deleted /\ ~list[j].is_deleted
                   /\ list[i].collection_id = list[j].collection_id)
            => list[i].url # list[j].url

\* C2: every Collection holds at most MAX_TABS_PER_COLLECTION non-deleted
\* Tabs after any sequence of calls.
C2_Capacity ==
    \A p \in ParentIds : Len(LiveTabsIn(store.tabs, p)) <= MAX_TABS_PER_COLLECTION

\* C3: a record once in a stored entity list (a tombstone included) is in
\* that list after every later call.
C3_NoErasure ==
    [][\A k \in StoreKeys : IdsOf(store[k]) \subseteq IdsOf(store'[k])]_vars

\* C5: addTab of a new URL into a Collection that holds the maximum of
\* non-deleted Tabs throws the capacity error, writes nothing to storage and
\* leaves the stored and the in-memory list as they were.
C5_CapacityError ==
    [][\A input \in TabInputs :
          (/\ Len(LiveTabsIn(store.tabs, input.collection_id))
                 >= MAX_TABS_PER_COLLECTION
           /\ \A i \in 1..Len(store.tabs) :
                 (store.tabs[i].collection_id = input.collection_id
                    /\ ~store.tabs[i].is_deleted)
                 => store.tabs[i].url # input.url
           /\ AddTab(1, input))
          => (/\ last'.status = CapacityError
              /\ store' = store
              /\ mem' = mem)]_vars

\* C5 witness: an addTab has just failed with the capacity error in a state
\* where a Collection is full and a URL is new to it.
C5_Witness ==
    /\ last = [op |-> "addTab", status |-> CapacityError]
    /\ \E p \in ParentIds, u \in Urls :
          /\ Len(LiveTabsIn(store.tabs, p)) = MAX_TABS_PER_COLLECTION
          /\ \A i \in 1..Len(store.tabs) :
                store.tabs[i].collection_id = p => store.tabs[i].url # u

\* C6: an add that creates a record gives it order = the number of
\* non-deleted siblings with the same parent at the time of the call (Tab,
\* Collection, Space); while only adds have been called, the Tabs of a
\* Collection have the orders 0, 1, 2, ... in the sequence of their insertion.
C6_OrderAtInsertion ==
    [][/\ \A input \in TabInputs :
             (nextId' # nextId /\ AddTab(1, input))
             => (/\ LastOf(store'.tabs).id = nextId
                 /\ LastOf(store'.tabs).order =
                        Len(LiveTabsIn(store.tabs, input.collection_id)))
       /\ \A input \in CollectionInputs :
             (nextId' # nextId /\ AddCollection(1, input))
             => (/\ LastOf(store'.collections).id = nextId
                 /\ LastOf(store'.collections).order =
                        Len(LiveCollectionsIn(store.collections, input.space_id)))
       /\ \A input \in SpaceInputs :
             (nextId' # nextId /\ AddSpace(1, input))
             => (/\ LastOf(store'.spaces).id = nextId
                 /\ LastOf(store'.spaces).order = Len(Visible(store.spaces)))]_vars

C6_InsertionRank ==
    [](onlyAdds =>
         \A p \in ParentIds :
            LET siblings == SelectSeq(store.tabs, LAMBDA x : x.collection_id = p)
            IN  \A i \in 1..Len(siblings) : siblings[i].order = i - 1)

C6_AppendOrder == C6_OrderAtInsertion /\ C6_InsertionRank

\* C6 witness: after adds only, an addTab has given a Collection its second
\* Tab.
C6_Witness ==
    /\ last = [op |-> "addTab", status |-> "ok"]
    /\ onlyAdds
    /\ \E p \in ParentIds : Len(LiveTabsIn(store.tabs, p)) = 2

\* what deleteX(id) leaves behind, given the outcome `again` of a second
\* deleteX(id) right after it
DeletePost(key, id, again) ==
    /\ id \notin IdsOf(mem[1][key]) => (store' = store /\ mem' = mem)
    /\ id \in IdsOf(mem[1][key]) => IsTombstone(store'[key], id)
    /\ id \notin IdsOf(mem'[1][key])
    /\ again.write = <<>>
    /\ again.set = <<>>

\* C7: deleteX(id) of an absent id writes nothing and changes nothing;
\* otherwise the record stays in the stored list with is_deleted = true and
\* is in no listByParent result; a second deleteX(id) changes nothing (Tab,
\* Collection, Space).
C7_DeleteIdempotent ==
    [][\A id \in Ids :
          /\ (last'.op = "deleteTab" /\ DeleteTab(1, id))
             => (/\ DeletePost("tabs", id, deleteTab(mem'[1].tabs, id, now'))
                 /\ \A p \in ParentIds :
                       id \notin IdsOf(getTabsByCollection(mem'[1].tabs, p)))
          /\ (last'.op = "deleteCollection" /\ DeleteCollection(1, id))
             => (/\ DeletePost("collections", id,
                               deleteCollection(mem'[1].collections, id, now'))
                 /\ \A p \in ParentIds :
                       id \notin IdsOf(getCollectionsBySpace(mem'[1].collections, p)))
          /\ (last'.op = "deleteSpace" /\ DeleteSpace(1, id))
             => DeletePost("spaces", id, deleteSpace(mem'[1].spaces, id, now'))]_vars

\* C7 witness: a deleteTab has left a tombstone in the stored list that the
\* in-memory list no longer has.
C7_Witness ==
    /\ last = [op |-> "deleteTab", status |-> "ok"]
    /\ \E id \in Ids : IsTombstone(store.tabs, id) /\ id \notin IdsOf(mem[1].tabs)

\* C8 as claimed: updateX(id, patch) on the id of a tombstone succeeds.
C8_UpdateOfTombstoneSucceeds ==
    [][\A id \in Ids :
          /\ \A input \in TabPatches :
                (last'.op = "updateTab" /\ IsTombstone(store.tabs, id)
                   /\ UpdateTab(1, id, input))
                => last'.status = "ok"
          /\ \A input \in CollectionPatches :
                (last'.op = "updateCollection" /\ IsTombstone(store.collections, id)
                   /\ UpdateCollection(1, id, input))
                => last'.status = "ok"
          /\ \A input \in SpacePatches :
                (last'.op = "updateSpace" /\ IsTombstone(store.spaces, id)
                   /\ UpdateSpace(1, id, input))
                => last'.status = "ok"]_vars

\* C8 as amended: the lookup is in the in-memory list, which holds no
\* tombstone: updateX(id, patch) on the id of a tombstone throws not-found
\* and changes nothing.
C8_UpdateOfTombstoneNotFound ==
    [][\A id \in Ids :
          /\ \A input \in TabPatches :
                (last'.op = "updateTab" /\ IsTombstone(store.tabs, id)
                   /\ UpdateTab(1, id, input))
                => (last'.status = "Tab not found" /\ store' = store /\ mem' = mem)
          /\ \A input \in CollectionPatches :
                (last'.op = "updateCollection" /\ IsTombstone(store.collections, id)
                   /\ UpdateCollection(1, id, input))
                => (/\ last'.status = "Collection not found"
                    /\ store' = store /\ mem' = mem)
          /\ \A input \in SpacePatches :
                (last'.op = "updateSpace" /\ IsTombstone(store.spaces, id)
                   /\ UpdateSpace(1, id, input))
                => (last'.status = "Space not found" /\ store' = store /\ mem' = mem)]_vars

\* C8 witness: an updateTab has thrown not-found while every identifier
\* handed out so far is that of a tombstone in the stored list.
C8_Witness ==
    /\ last = [op |-> "updateTab", status |-> "Tab not found"]
    /\ nextId = 2
    /\ IsTombstone(store.tabs, 1)

\* C9: updateX(id, patch) with an id that matches no record throws not-found,
\* writes nothing and leaves the stored and the in-memory list as they were
\* (Tab, Collection, Space).
C9_UpdateNotFound ==
    [][\A id \in Ids :
          /\ \A input \in TabPatches :
                (last'.op = "updateTab" /\ id \notin IdsOf(store.tabs)
                   /\ UpdateTab(1, id, input))
                => (last'.status = "Tab not found" /\ store' = store /\ mem' = mem)
          /\ \A input \in CollectionPatches :
                (last'.op = "updateCollection" /\ id \notin IdsOf(store.collections)
                   /\ UpdateCollection(1, id, input))
                => (/\ last'.status = "Collection not found"
                    /\ store' = store /\ mem' = mem)
          /\ \A input \in SpacePatches :
                (last'.op = "updateSpace" /\ id \notin IdsOf(store.spaces)
                   /\ UpdateSpace(1, id, input))
                => (last'.status = "Space not found" /\ store' = store /\ mem' = mem)]_vars

\* C9 witness: an updateTab has thrown not-found while the stored list holds
\* no record at all.
C9_Witness ==
    /\ last = [op |-> "updateTab", status |-> "Tab not found"]
    /\ store.tabs = <<>>

TargetCapacityError == "Target collection already has MAX tabs"

\* the list after the Tab id has been moved to the end of the Collection target
Moved(tabs, id, target, t) ==
    [i \in 1..Len(tabs) |->
        IF tabs[i].id = id
        THEN [tabs[i] EXCEPT !.collection_id = target,
                             !.order = Len(LiveTabsIn(tabs, target)),
                             !.updated_at = t]
        ELSE tabs[i]]

\* the outcome of moveTab(id, target) when the move is made
MoveMade(id, target) ==
    /\ last'.status = "ok"
    /\ mem'[1].tabs = Moved(mem[1].tabs, id, target, now)
    /\ store'.tabs = mem'[1].tabs

\* the outcome of a moveTab that fails with the given error
MoveRefused(error) ==
    /\ last'.status = error
    /\ mem' = mem
    /\ store' = store

\* C25 as stated: moveTab(id, target) fails with a capacity error, nothing
\* changed, whenever the target Collection holds MAX_TABS_PER_COLLECTION
\* non-deleted Tabs; it fails with not-found if id is unknown; otherwise
\* the Tab gets the target as collection_id and the number of non-deleted
\* Tabs of the target before the move as order, no other Tab changing.
C25_MoveTabCapacityFirst ==
    [][\A id \in Ids, target \in MoveTargets :
          (last'.op = "moveTab" /\ MoveTab(1, id, target))
          => IF Len(LiveTabsIn(mem[1].tabs, target)) >= MAX_TABS_PER_COLLECTION
             THEN MoveRefused(TargetCapacityError)
             ELSE IF id \notin IdsOf(mem[1].tabs)
             THEN MoveRefused("Tab not found")
             ELSE MoveMade(id, target)]_vars

\* C25, amended: moveTab(id, target) fails with not-found if id is unknown;
\* for a known id it fails with a capacity error, nothing changed, if the
\* target Collection holds MAX_TABS_PER_COLLECTION non-deleted Tabs;
\* otherwise the Tab gets the target as collection_id and the number of
\* non-deleted Tabs of the target before the move as order, no other Tab
\* changing.
C25_MoveTab ==
    [][\A id \in Ids, target \in MoveTargets :
          (last'.op = "moveTab" /\ MoveTab(1, id, target))
          => IF id \notin IdsOf(mem[1].tabs)
             THEN MoveRefused("Tab not found")
             ELSE IF Len(LiveTabsIn(mem[1].tabs, target)) >= MAX_TABS_PER_COLLECTION
             THEN MoveRefused(TargetCapacityError)
             ELSE MoveMade(id, target)]_vars

\* a Tab has been moved behind the one Tab the target Collection held: the
\* target holds two Tabs with the orders 0 and 1
C25_Witness ==
    /\ last = [op |-> "moveTab", status |-> "ok"]
    /\ Len(mem[1].tabs) = 2
    /\ mem[1].tabs[1].collection_id = 1
    /\ mem[1].tabs[1].order = 0
    /\ mem[1].tabs[2].collection_id = 1
    /\ mem[1].tabs[2].order = 1
    /\ mem[1].tabs[2].url = mem[1].tabs[1].url

\* the records of a list other than the record id, in their sequence
Others(list, id) == SelectSeq(list, LAMBDA x : x.id # id)

RecordsOf(list) == {list[i] : i \in 1..Len(list)}

\* delete(id) on one entity list: the other in-memory records are what they
\* were, in their sequence, and every other stored record is a record held
\* before, with every field as it was
OthersKept(key, id) ==
    /\ Others(mem'[1][key], id) = Others(mem[1][key], id)
    /\ \A x \in RecordsOf(store'[key]) :
          x.id # id => x \in RecordsOf(mem[1][key]) \cup RecordsOf(store[key])

\* C26: delete(id) does not renumber: the order and every other field of
\* every record other than the deleted one are what they were before the
\* delete, so gaps in order may remain.
C26_DeleteDoesNotRenumber ==
    [][\A id \in Ids :
          /\ (last'.op = "deleteTab" /\ DeleteTab(1, id))
                => OthersKept("tabs", id)
          /\ (last'.op = "deleteCollection" /\ DeleteCollection(1, id))
                => OthersKept("collections", id)]_vars

\* the first of two Collections of a Space has been deleted: the one that
\* remains keeps the order 1, and no Collection of the Space has the order 0
C26_Witness ==
    /\ last.op = "deleteCollection"
    /\ Len(mem[1].collections) = 1
    /\ mem[1].collections[1].order = 1
    /\ \E i \in 1..Len(store.collections) :
          /\ store.collections[i].is_deleted
          /\ store.collections[i].order = 0
          /\ store.collections[i].space_id = mem[1].collections[1].space_id

\* C21: addSpace on a store with no visible Space makes the new Space the
\* active one; addSpace while another non-deleted Space exists leaves the
\* active pointer as it was.
C21_FirstSpaceBecomesActive ==
    [][\A input \in SpaceInputs :
          (last'.op = "addSpace" /\ AddSpace(1, input))
          => IF Visible(mem[1].spaces) = <<>>
             THEN /\ mem'[1].activeSpaceId = generateUUID
                  /\ mem'[1].activeSpace = <<LastOf(mem'[1].spaces)>>
                  /\ LastOf(mem'[1].spaces).id = generateUUID
                  /\ store'.active_space_id = generateUUID
             ELSE /\ mem'[1].activeSpaceId = mem[1].activeSpaceId
                  /\ mem'[1].activeSpace = mem[1].activeSpace
                  /\ store'.active_space_id = store.active_space_id]_vars

\* a Space created after every earlier Space was deleted is the active one
C21_Witness ==
    /\ last.op = "addSpace"
    /\ Len(mem[1].spaces) = 1
    /\ mem[1].spaces[1].id > 1
    /\ mem[1].activeSpaceId = mem[1].spaces[1].id
    /\ store.active_space_id = mem[1].spaces[1].id

\* the Spaces of a list that remain when the Space id is deleted
Remaining(spaces, id) == SelectSeq(spaces, LAMBDA x : x.id # id /\ ~x.is_deleted)

\* C20: deleting the active Space makes the first remaining non-deleted
\* Space, in list order, the active one (the other Space, when one other
\* remains); deleting the last remaining Space leaves the active pointer
\* empty; deleting a Space that is not the active one leaves the pointer as
\* it was.
C20_DeleteActiveSpace ==
    [][\A id \in Ids :
          (last'.op = "deleteSpace" /\ DeleteSpace(1, id))
          => LET rest == Remaining(mem[1].spaces, id)
             IN  IF mem[1].activeSpaceId = id /\ id \in IdsOf(mem[1].spaces)
                 THEN IF rest # <<>>
                      THEN /\ mem'[1].activeSpaceId = rest[1].id
                           /\ mem'[1].activeSpace = <<rest[1]>>
                           /\ mem'[1].spaces = rest
                      ELSE /\ mem'[1].activeSpaceId = NoId
                           /\ mem'[1].activeSpace = <<>>
                           /\ mem'[1].spaces = <<>>
                 ELSE /\ mem'[1].activeSpaceId = mem[1].activeSpaceId
                      /\ mem'[1].activeSpace = mem[1].activeSpace]_vars

\* the last remaining Space, which was the active one, has been deleted: the
\* in-memory pointer is empty while storage still names the deleted Space
C20_Witness ==
    /\ last.op = "deleteSpace"
    /\ mem[1].spaces = <<>>
    /\ mem[1].activeSpaceId = NoId
    /\ mem[1].activeSpace = <<>>
    /\ store.active_space_id # NoId
    /\ \E i \in 1..Len(store.spaces) :
          /\ store.spaces[i].id = store.active_space_id
          /\ store.spaces[i].is_deleted

----------------------------------------------------------------------------
(* Properties of the duplicate-URL merge (SpecMerge) *)

\* the first non-deleted Tab of the stored list with the Collection and URL
\* of the input, 0 when there is none
Duplicate(input) ==
    LET before == Visible(store.tabs)
        same(x) == x.collection_id = input.collection_id /\ x.url = input.url
    IN  IF \E i \in 1..Len(before) : same(before[i])
        THEN CHOOSE i \in 1..Len(before) :
                 same(before[i]) /\ \A j \in 1..(i - 1) : ~same(before[j])
        ELSE 0

\* the merge: the identifier returned is the existing Tab's, no Collection
\* gains a Tab, and the lists differ from before in the title, favicon and
\* updated_at of that Tab alone
Merged(input) ==
    LET before == Visible(store.tabs)
        k == Duplicate(input)
        merged == [before[k] EXCEPT !.title = input.title,
                                    !.favicon = input.favicon,
                                    !.updated_at = now]
    IN  /\ last'.status = "ok"
        /\ addTab(mem[1].tabs, input, now).ret = before[k].id
        /\ nextId' = nextId
        /\ \A p \in ParentIds :
              Len(LiveTabsIn(store'.tabs, p)) = Len(LiveTabsIn(store.tabs, p))
        /\ mem'[1].tabs = [before EXCEPT ![k] = merged]
        /\ Visible(store'.tabs) = mem'[1].tabs

\* C4 as claimed: addTab with the URL of an existing non-deleted Tab of the
\* same Collection returns that Tab's identifier, adds no Tab, and changes
\* only its title, favicon and updated_at.
C4_DuplicateAlwaysMerges ==
    [][\A input \in RichTabInputs :
          (last'.op = "addTab" /\ Duplicate(input) # 0 /\ AddTab(1, input)) => Merged(input)]_vars

\* C4 as amended: so it is while the Collection holds fewer Tabs than the
\* maximum; in a full Collection the call throws the capacity error and
\* changes nothing.
C4_DedupMerge ==
    [][\A input \in RichTabInputs :
          (last'.op = "addTab" /\ Duplicate(input) # 0 /\ AddTab(1, input))
          => IF Len(LiveTabsIn(store.tabs, input.collection_id))
                   < MAX_TABS_PER_COLLECTION
             THEN Merged(input)
             ELSE /\ last'.status = CapacityError
                  /\ store' = store
                  /\ mem' = mem]_vars

\* C4 witness: an addTab has merged into a Tab that was created earlier: the
\* Tab has the title and favicon of the second input and the description of
\* the first.
C4_Witness ==
    /\ last = [op |-> "addTab", status |-> "ok"]
    /\ \E i \in 1..Len(mem[1].tabs) :
          /\ mem[1].tabs[i].title = "A2"
          /\ mem[1].tabs[i].favicon = "fav"
          /\ mem[1].tabs[i].description = "desc"
          /\ mem[1].tabs[i].created_at < mem[1].tabs[i].updated_at

----------------------------------------------------------------------------
(* Properties of two contexts over the one storage area (SpecCtx) *)

\* both contexts are at rest: no call is suspended
Quiet == \A c \in Contexts : pending[c] = <<>>

\* C10: a write replaces the whole stored list by the writer's list: of the
\* records stored before an addTab of context c, those that c's in-memory
\* list lacks are gone after it (the last writer wins); and the run in which
\* two contexts add concurrently and only the later record is stored exists
\* (the witness).
C10_LastWriterWins ==
    [][\A c \in Contexts, input \in CtxTabInputs :
          (store' # store /\ CallAddTab(c, input))
          => /\ IdsOf(store'.tabs) \subseteq IdsOf(mem[c].tabs) \cup {nextId}
             /\ \A id \in IdsOf(store.tabs) \ IdsOf(mem[c].tabs) :
                   id \notin IdsOf(store'.tabs)]_vars

\* C10 witness: both contexts have added a Tab concurrently (each from the
\* empty list) and both calls have returned: each context has its own Tab in
\* memory, and the stored list holds the Tab of the later writer alone.
C10_Witness ==
    /\ Quiet
    /\ last = [op |-> "addTab", status |-> "ok"]
    /\ nextId = 3
    /\ IdsOf(mem[1].tabs) = {1}
    /\ IdsOf(mem[2].tabs) = {2}
    /\ IdsOf(store.tabs) = {2}

----------------------------------------------------------------------------
(* Properties of overlapping calls of one context (SpecOverlap) *)

\* C11: when an addTab that created a Tab completes in a context whose
\* in-memory list holds the Tab of an earlier addTab with another URL, both
\* Tabs are in the in-memory list and in the stored list, with distinct
\* orders when they have the same Collection -- also when the second call
\* started before the first completed.
C11_BothTakeEffect ==
    [][(/\ Len(pending[1]) = 1
        /\ Head(pending[1]).r.created
        /\ mem[1].tabs # <<>>
        /\ LastOf(mem[1].tabs).url # LastOf(Head(pending[1]).r.set[1]).url
        /\ Settle(1))
       => LET first == LastOf(mem[1].tabs)
              second == LastOf(Head(pending[1]).r.set[1])
          IN  /\ {first.id, second.id} \subseteq IdsOf(mem'[1].tabs)
              /\ {first.id, second.id} \subseteq IdsOf(store'.tabs)
              /\ first.collection_id = second.collection_id
                    => first.order # second.order]_vars

----------------------------------------------------------------------------
(* Properties of the session store and the gateway (SpecAuth) *)

\* no user, no token, no expiry, not authenticated
Unauthenticated(auth) ==
    /\ auth.user = NoVal
    /\ auth.access_token = NoVal
    /\ auth.token_expires_at = NoExpiry
    /\ ~auth.is_authenticated

\* none of the three keys of the session is in the storage area
Erased(st) ==
    /\ st.auth_user = NoVal
    /\ st.auth_token = NoVal
    /\ st.token_expires_at = NoExpiry

\* C12: a request made with requiresAuth set while the session of its
\* context has no access token, or isTokenExpired() is true, fails with the
\* ApiError of status 401 and issues no network request.
C12_AuthGate ==
    [][\A c \in Contexts, endpoint \in ProtectedEndpoints, response \in Responses :
          (/\ last'.op = "request"
           /\ \/ mem[c].auth.access_token = NoVal
              \/ isTokenExpired(mem[c].auth, now)
           /\ ProtectedRequest(c, endpoint, response))
          => /\ last'.status = AuthRequired
             /\ net' = net]_vars

\* the gate has refused a request of a session that holds a token past its
\* expiry, and nothing was ever sent
C12_Witness ==
    /\ last.op = "request"
    /\ last.status = AuthRequired
    /\ net = <<>>
    /\ mem[1].auth.access_token # NoVal
    /\ isTokenExpired(mem[1].auth, now)
    /\ mem[2].auth.access_token = NoVal

\* C13: isTokenExpired() is true when no expiry is recorded and when the
\* recorded expiry is at or before the current time (the instant of expiry
\* included), and false only when the expiry is strictly in the future.
C13_ExpiredIffNotInFuture ==
    \A c \in Contexts :
        isTokenExpired(mem[c].auth, now)
            <=> \/ mem[c].auth.token_expires_at = NoExpiry
                \/ mem[c].auth.token_expires_at <= now

\* C14: a load() that finds a stored expiry at or before the current time
\* (the instant of expiry included) logs out: the session of the context is
\* Unauthenticated and the stored triple is erased.
C14_LoadOfExpiredLogsOut ==
    [][\A c \in Contexts :
          (/\ last'.op = "loadAuth"
           /\ store.token_expires_at # NoExpiry
           /\ store.token_expires_at <= now
           /\ LoadAuth(c))
          => /\ Unauthenticated(mem'[c].auth)
             /\ Erased(store')]_vars

\* C15: in every state between two operations the session of a context is
\* either Unauthenticated (no user, no token) or Authenticated with an
\* expiry in the future; a token (or is_authenticated) with an expiry at or
\* before the current time is never left standing.
C15_NoExpiredSessionStands ==
    \A c \in Contexts :
        \/ /\ mem[c].auth.user = NoVal
           /\ mem[c].auth.access_token = NoVal
           /\ ~mem[c].auth.is_authenticated
        \/ /\ mem[c].auth.user # NoVal
           /\ mem[c].auth.access_token # NoVal
           /\ mem[c].auth.token_expires_at # NoExpiry
           /\ mem[c].auth.token_expires_at > now

\* C16: setAuth(user, token, ttl) records the expiry now + ttl (seconds,
\* kept in milliseconds), stores user, token and expiry together and leaves
\* the session Authenticated; for ttl > 0 isTokenExpired() is false right
\* after it; and a load() in another context before the expiry restores the
\* same user, token and expiry with is_authenticated true.
C16_SetAuthRoundTrip ==
    [][/\ \A c \in Contexts, user \in Users, accessToken \in Tokens,
             expiresIn \in Ttls :
             (/\ last'.op = "setAuth"
              /\ SetAuth(c, user, accessToken, expiresIn))
             => /\ mem'[c].auth.user = user
                /\ mem'[c].auth.access_token = accessToken
                /\ mem'[c].auth.token_expires_at = now + expiresIn * MsPerSecond
                /\ mem'[c].auth.is_authenticated
                /\ store'.auth_user = user
                /\ store'.auth_token = accessToken
                /\ store'.token_expires_at = now + expiresIn * MsPerSecond
                /\ expiresIn > 0 => ~isTokenExpired(mem'[c].auth, now')
       /\ \A c \in Contexts :
             (/\ last'.op = "loadAuth"
              /\ store.auth_user # NoVal
              /\ store.auth_token # NoVal
              /\ now < store.token_expires_at
              /\ LoadAuth(c))
             => /\ mem'[c].auth.user = store.auth_user
                /\ mem'[c].auth.access_token = store.auth_token
                /\ mem'[c].auth.token_expires_at = store.token_expires_at
                /\ mem'[c].auth.is_authenticated
                /\ store' = store]_vars

\* one context has set the session with a positive lifetime and the other
\* has loaded it before the expiry: both hold the stored triple
C16_Witness ==
    /\ last.op = "loadAuth"
    /\ now < store.token_expires_at
    /\ \A c \in Contexts :
          /\ mem[c].auth.is_authenticated
          /\ mem[c].auth.user = store.auth_user
          /\ mem[c].auth.access_token = store.auth_token
          /\ mem[c].auth.token_expires_at = store.token_expires_at
          /\ ~isTokenExpired(mem[c].auth, now)

\* C17: logout(), from any session state, erases the stored triple and
\* leaves the session of its context Unauthenticated; a load() that follows
\* stays Unauthenticated.
C17_LogoutErases ==
    [][\A c \in Contexts :
          /\ (last'.op = "logout" /\ Logout(c))
                => /\ Erased(store')
                   /\ Unauthenticated(mem'[c].auth)
          /\ (last'.op = "loadAuth" /\ Erased(store) /\ LoadAuth(c))
                => /\ Erased(store')
                   /\ Unauthenticated(mem'[c].auth)]_vars

\* a context has logged out of a session that the other context still
\* holds in memory: the stored triple is gone
C17_Witness ==
    /\ last.op = "logout"
    /\ Erased(store)
    /\ Unauthenticated(mem[1].auth)
    /\ mem[2].auth.is_authenticated

\* C29: a response with a non-success status fails the call with the
\* ApiError of that status, carrying the parsed body, or {} when the body
\* does not parse; a 204 gives the empty result whatever the body; any
\* other success status gives the parsed body.
C29_ResponseMapping ==
    [][\A c \in Contexts, endpoint \in ProtectedEndpoints,
          response \in Responses :
          (/\ last'.op = "request"
           /\ io' # <<>>
           /\ ProtectedRequest(c, endpoint, response))
          => IF response.status \notin 200..299
             THEN /\ last'.status = ApiError(response.status)
                  /\ last'.data = IF response.parsable THEN response.body
                                  ELSE EmptyObject
             ELSE IF response.status = 204
             THEN /\ last'.status = "ok"
                  /\ last'.data = EmptyObject
             ELSE response.parsable
                  => /\ last'.status = "ok"
                     /\ last'.data = response.body]_vars

\* a request was sent and answered 500 with a body that is not JSON: the
\* call has failed with the error of the status and the body {}
C29_Witness ==
    /\ last.op = "request"
    /\ io # <<>>
    /\ last.status = ApiError(500)
    /\ last.data = EmptyObject

----------------------------------------------------------------------------
(* Properties of the auth flows (SpecFlows) *)

\* C18: after a successful login-by-code or register flow the session is
\* Authenticated with the user and the access token of the response and the
\* expiry now + expires_in.
C18_FlowPopulatesSession ==
    [][\A email \in Emails, code \in Codes, password \in Passwords,
          response \in Responses :
          (/\ last'.op \in {"loginWithVerificationCode", "register"}
           /\ last'.status = "ok"
           /\ response.status = 200
           /\ response.parsable
           /\ \/ LoginWithVerificationCode(1, email, code, response)
              \/ Register(1, email, code, password, response))
          => /\ mem'[1].auth.is_authenticated
             /\ mem'[1].auth.user = response.body.user
             /\ mem'[1].auth.access_token = response.body.access_token
             /\ mem'[1].auth.token_expires_at
                   = now + response.body.expires_in * MsPerSecond]_vars

\* C19: every call of send-code, login-by-code and register draws its nonce
\* and its timestamp at the call; the request it sends has neither the nonce
\* nor the signature of any request an earlier call has sent, identical
\* inputs and the same second included.
C19_NonceFresh ==
    [][(/\ Len(net') = Len(net) + 1
        /\ net'[Len(net')].endpoint \in AuthEndpoints)
       => LET b == net'[Len(net')].body
          IN  /\ b.auth_at = nowUnix
              /\ \A i \in 1..Len(net) :
                    net[i].endpoint \in AuthEndpoints
                       => /\ net[i].body.nonce # b.nonce
                          /\ net[i].body.signature # b.signature]_vars

\* two send-code requests with the same email and purpose, sent within the
\* same second
C19_Witness ==
    /\ Len(net) = 2
    /\ net[1].endpoint = SEND_VERIFICATION_CODE
    /\ net[2].endpoint = SEND_VERIFICATION_CODE
    /\ net[1].body.email = net[2].body.email
    /\ net[1].body.purpose = net[2].body.purpose
    /\ net[1].body.auth_at = net[2].body.auth_at
    /\ net[1].body.nonce # net[2].body.nonce

----------------------------------------------------------------------------
(* Properties of the stores over a storage area whose calls may reject
   (SpecFaults, SpecAuthFaults) *)

LoadOps == {"loadTabs", "loadCollections", "loadSpaces"}

\* C22: a load whose read of the storage area fails does not throw: the
\* error flag of the store is set, isLoading is false and the in-memory
\* list is empty, also when an earlier load had filled it.
C22_LoadFailureEmpties ==
    [][\A key \in StoreKeys, op \in LoadOps :
          LoadFails(1, key, op)
          => /\ last'.status = "ok"
             /\ mem'[1].error[key] # NoVal
             /\ ~mem'[1].isLoading[key]
             /\ mem'[1][key] = <<>>]_vars

\* C23: a loadAuth whose read of the stored triple fails, or whose logout
\* fails, does not throw, and leaves the session Unauthenticated: no user,
\* no token, is_authenticated false.
C23_LoadAuthFailureUnauthenticates ==
    [][(LoadAuthFails(1) \/ LoadAuthLogoutFails(1))
       => /\ last'.status = "ok"
          /\ mem'[1].auth.user = NoVal
          /\ mem'[1].auth.access_token = NoVal
          /\ ~mem'[1].auth.is_authenticated]_vars

\* C24: when a write of the storage area fails during an add, an update or a
\* delete of any entity kind, the failure reaches the caller and the
\* in-memory state is what it was before the call.
C24_WriteFailurePropagates ==
    [][(\/ TabCallsFail(1)
        \/ CollectionCallsFail(1)
        \/ SpaceCallsFail(1)
        \/ \E input \in SpaceInputs : AddSpacePointerFails(1, input)
        \/ \E id \in Ids : DeleteSpacePointerFails(1, id))
       => /\ last'.status = StorageError
          /\ mem' = mem]_vars

----------------------------------------------------------------------------
(* Properties of the getters (SpecList) *)

\* ret holds exactly the records of the set, each once, in ascending order
SortedListOf(ret, records) ==
    /\ RecordsOf(ret) = records
    /\ Len(ret) = Cardinality(records)
    /\ \A i, j \in 1..Len(ret) : i < j => ret[i].order <= ret[j].order

\* C27: getTabsByCollection(p) and getCollectionsBySpace(p) return exactly
\* the in-memory records that are not deleted and have the parent p, sorted
\* ascending by order, and leave the state of the store as it is.
C27_ListByParent ==
    [][\A p \in ParentIds :
          /\ (last'.op = "getTabsByCollection" /\ GetTabsByCollection(1, p))
                => /\ SortedListOf(last'.ret,
                          {x \in RecordsOf(mem[1].tabs) :
                              x.collection_id = p /\ ~x.is_deleted})
                   /\ mem' = mem
                   /\ store' = store
          /\ (last'.op = "getCollectionsBySpace" /\ GetCollectionsBySpace(1, p))
                => /\ SortedListOf(last'.ret,
                          {x \in RecordsOf(mem[1].collections) :
                              x.space_id = p /\ ~x.is_deleted})
                   /\ mem' = mem
                   /\ store' = store]_vars

\* getTabsByCollection has returned two Tabs in another sequence than the
\* one the store holds them in
C27_Witness ==
    /\ last.op = "getTabsByCollection"
    /\ Len(last.ret) = 2
    /\ Len(mem[1].tabs) = 2
    /\ last.ret[1] = mem[1].tabs[2]
    /\ last.ret[2] = mem[1].tabs[1]
    /\ last.ret[1].order < last.ret[2].order

----------------------------------------------------------------------------
(* Properties of the three stores side by side (SpecCascade) *)

\* C28: deleteSpace changes no Collection and no Tab, in memory or in
\* storage, and deleteCollection changes no Tab; the Collections of a
\* deleted Space are still what getCollectionsBySpace returns for its id.
C28_NoCascade ==
    [][\A id \in Ids :
          /\ (last'.op = "deleteSpace" /\ DeleteSpaceCall(1, id))
                => /\ mem'[1].collections = mem[1].collections
                   /\ mem'[1].tabs = mem[1].tabs
                   /\ store'.collections = store.collections
                   /\ store'.tabs = store.tabs
                   /\ getCollectionsBySpace(mem'[1].collections, id)
                         = getCollectionsBySpace(mem[1].collections, id)
          /\ (last'.op = "deleteCollection"
                /\ Handled(1, "collections", "deleteCollection",
                           deleteCollection(mem[1].collections, id, now)))
                => /\ mem'[1].tabs = mem[1].tabs
                   /\ store'.tabs = store.tabs]_vars

\* getCollectionsBySpace has returned a Collection for the id of a Space
\* that is deleted, no Space remaining
C28_Witness ==
    /\ last.op = "getCollectionsBySpace"
    /\ last.ret # <<>>
    /\ mem[1].spaces = <<>>
    /\ \E i \in 1..Len(store.spaces) :
          /\ store.spaces[i].is_deleted
          /\ store.spaces[i].id = last.ret[1].space_id

----------------------------------------------------------------------------
(* Properties of the calls over a failing storage and network (SpecCalls) *)

\* the calls of `call` on `key` that the last operation has issued
Issued(call, key) ==
    Cardinality({i \in DOMAIN io : io[i].call = call /\ io[i].key = key})

\* the add, update and delete calls of the three entity stores (moveTab
\* ends in updateTab), and the list key of each
ListKeyOf ==
    [addTab |-> "tabs", updateTab |-> "tabs", deleteTab |-> "tabs",
     moveTab |-> "tabs",
     addCollection |-> "collections", updateCollection |-> "collections",
     deleteCollection |-> "collections",
     addSpace |-> "spaces", updateSpace |-> "spaces",
     deleteSpace |-> "spaces"]

\* C30: a gateway call issues at most one fetch and an add, update or
\* delete call issues at most one write of its entity list, whether the
\* fetch or the write succeeds or rejects.
C30_NoRetry ==
    /\ last.op = "request"
          => \A endpoint \in ProtectedEndpoints : Issued("fetch", endpoint) <= 1
    /\ last.op \in DOMAIN ListKeyOf
          => Issued("set", ListKeyOf[last.op]) <= 1

\* an update of a Tab has failed on its one write, which rejected
C30_Witness ==
    /\ last.op = "updateTab"
    /\ last.status = StorageError
    /\ io = <<IoCall("set", "tabs", FALSE)>>
    /\ Visible(mem[1].tabs) # <<>>

----------------------------------------------------------------------------
(* Properties of the adds and deletes of the three stores (SpecCascade) *)

\* whether two records of the list `key` have the same parent
Siblings(key, x, y) ==
    CASE key = "tabs" -> x.collection_id = y.collection_id
      [] key = "collections" -> x.space_id = y.space_id
      [] OTHER -> TRUE

\* C31: after any sequence of adds and deletes, no two non-deleted siblings
\* (Tabs of a Collection, Collections of a Space, Spaces) have the same
\* order, in the in-memory list and in the stored list.
C31_OrderDistinct ==
    \A key \in {"tabs", "collections", "spaces"} :
        \A list \in {mem[1][key], store[key]} :
            \A i, j \in 1..Len(list) :
                (i # j /\ ~list[i].is_deleted /\ ~list[j].is_deleted
                       /\ Siblings(key, list[i], list[j]))
                => list[i].order # list[j].order

----------------------------------------------------------------------------
(* Properties of the awaited calls of one context, continued (Spec) *)

\* C32: after every completed call of one context whose writes succeed, the
\* in-memory list of each entity kind is the stored list of that kind
\* without its deleted records, in the same sequence.
C32_WriteThrough ==
    \A key \in {"tabs", "collections", "spaces"} :
        mem[1][key] = Visible(store[key])

\* a delete has left a tombstone in the stored list, next to a record that
\* is in memory
C32_Witness ==
    /\ last.op = "deleteTab"
    /\ last.status = "ok"
    /\ Len(store.tabs) = 2
    /\ Len(mem[1].tabs) = 1
    /\ \E i \in 1..2 : store.tabs[i].is_deleted

----------------------------------------------------------------------------
(* Properties of the active pointer (SpecPointer) *)

\* the pointer of the store state m is empty, with no activeSpace, or is the
\* id of a Space of the in-memory list, with that record as activeSpace
PointerValid(m) ==
    \/ m.activeSpaceId = NoId /\ m.activeSpace = <<>>
    \/ \E i \in 1..Len(m.spaces) :
          /\ ~m.spaces[i].is_deleted
          /\ m.spaces[i].id = m.activeSpaceId
          /\ m.activeSpace = <<m.spaces[i]>>

\* C33: after adds, deletes and selections of existing Spaces followed by
\* loadSpaces, the pointer is empty or the id of a non-deleted Space and
\* activeSpace is that record or null; after the delete of the last
\* remaining Space the stored pointer agrees with the in-memory pointer.
C33_ActivePointerValid ==
    /\ last.op = "loadSpaces" => PointerValid(mem[1])
    /\ (last.op = "deleteSpace" /\ mem[1].spaces = <<>>)
          => store.active_space_id = mem[1].activeSpaceId

----------------------------------------------------------------------------
(* Properties of two contexts taking turns (SpecTurns) *)

\* C34: when the contexts mutate strictly one after another, with no load
\* in between, every mutation survives: a non-deleted record that is stored
\* before a completed add, update or delete of either context is stored
\* after it.
C34_BothSurvive ==
    [][(/\ last'.op \in {"addTab", "updateTab", "deleteTab"}
        /\ last'.status = "ok")
       => IdsOf(Visible(store.tabs)) \subseteq IdsOf(store'.tabs)]_vars

----------------------------------------------------------------------------
(* Properties of the session store, continued (SpecAuthFaults) *)

\* C35: when loadAuth completes, on any of its paths (a valid triple, an
\* expired triple and the logout it leads to, an empty store, a read that
\* rejects), is_loading is false.
C35_LoadingFlagCleared ==
    last.op = "loadAuth" => ~mem[1].auth.is_loading

----------------------------------------------------------------------------
(* Properties of the Tab store with display variants, continued (SpecMerge) *)

\* C36: addTab into a Collection that holds the maximum of non-deleted Tabs,
\* with the URL of a Tab of that Collection, throws the capacity error, and
\* the title and favicon of that Tab, as everything else, stay as they are.
C36_CapacityBeforeDedup ==
    [][\A input \in RichTabInputs :
          (/\ last'.op = "addTab"
           /\ Len(LiveTabsIn(store.tabs, input.collection_id))
                 >= MAX_TABS_PER_COLLECTION
           /\ Duplicate(input) # 0
           /\ AddTab(1, input))
          => /\ last'.status = CapacityError
             /\ Visible(store'.tabs)[Duplicate(input)]
                   = Visible(store.tabs)[Duplicate(input)]
             /\ store'.tabs = store.tabs
             /\ mem'[1].tabs = mem[1].tabs]_vars

\* an addTab has failed with the capacity error on a full Collection whose
\* Tabs have every URL the callers pass for it: the input was a duplicate
C36_Witness ==
    /\ last.op = "addTab"
    /\ last.status = CapacityError
    /\ Len(LiveTabsIn(store.tabs, 1)) = MAX_TABS_PER_COLLECTION
    /\ \A input \in RichTabInputs :
          input.collection_id = 1
          => \E i \in 1..Len(store.tabs) :
                /\ ~store.tabs[i].is_deleted
                /\ store.tabs[i].collection_id = 1
                /\ store.tabs[i].url = input.url

----------------------------------------------------------------------------
(* Properties of the request gateway, continued (SpecAuth) *)

\* the session holds a token whose recorded expiry is still in the future
Unexpired(auth, t) ==
    /\ auth.access_token # NoVal
    /\ auth.token_expires_at # NoExpiry
    /\ t < auth.token_expires_at

\* C37: a request with requiresAuth carries an Authorization header exactly
\* when the session's token is present and unexpired at the call, and the
\* header is the session's access token; a request of the auth flows
\* carries no Authorization header.
C37_BearerAttachment ==
    [][/\ \A c \in Contexts, endpoint \in ProtectedEndpoints,
             response \in Responses :
             (last'.op = "request" /\ ProtectedRequest(c, endpoint, response))
             => IF Unexpired(mem[c].auth, now)
                THEN /\ Len(net') = Len(net) + 1
                     /\ net'[Len(net')].authorization = mem[c].auth.access_token
                ELSE \A i \in 1..Len(net') :
                        i > Len(net) => net'[i].authorization = NoVal
       /\ \A i \in 1..Len(net') :
             net'[i].endpoint \in AuthEndpoints
             => net'[i].authorization = NoVal]_vars

----------------------------------------------------------------------------
(* Properties of the auth flows, continued (SpecFlows) *)

\* the purpose a request of the auth flows is signed for
PurposeOf(request) ==
    CASE request.endpoint = SEND_VERIFICATION_CODE -> request.body.purpose
      [] request.endpoint = LOGIN_WITH_CODE -> "login"
      [] request.endpoint = REGISTER -> "register"

\* C38: in every request of send-code, login-by-code and register, the
\* signature is the hash, under the shared secret, of the email, nonce and
\* auth_at of the same body and the purpose of the flow: the caller's for
\* send-code, 'login' for login-by-code, 'register' for register.
C38_SignatureBinding ==
    \A i \in 1..Len(net) :
        net[i].endpoint \in AuthEndpoints
        => net[i].body.signature
              = <<SIGNATURE_SECRET, net[i].body.email, net[i].body.nonce,
                  net[i].body.auth_at, PurposeOf(net[i])>>

\* a send-code request for a password reset and a register request have
\* been sent
C38_Witness ==
    /\ Len(net) = 2
    /\ net[1].endpoint = SEND_VERIFICATION_CODE
    /\ net[1].body.purpose = "reset_password"
    /\ net[2].endpoint = REGISTER
    /\ net[2].body.nonce # net[1].body.nonce

----------------------------------------------------------------------------
(* Properties of the updates with the clock running (SpecUpdate) *)

\* the step has changed, in the list `key`, the record `id` alone: it has
\* the values of the patch in the fields of the patch, the time of the call
\* as updated_at, not earlier than the one before, and its other fields,
\* id and created_at among them, as before; it is where it was in the list,
\* the other records are as they were, and the list is the stored one
Framed(key, id, input) ==
    LET before == mem[1][key]
        after == mem'[1][key]
        k == FindIndex(before, "id", id)
    IN  /\ k # 0
        /\ Len(after) = Len(before)
        /\ \A i \in 1..Len(before) : i # k => after[i] = before[i]
        /\ DOMAIN after[k] = DOMAIN before[k]
        /\ \A f \in DOMAIN input : after[k][f] = input[f]
        /\ \A f \in DOMAIN before[k] \ (DOMAIN input \cup {"updated_at"}) :
              after[k][f] = before[k][f]
        /\ after[k].id = before[k].id
        /\ after[k].created_at = before[k].created_at
        /\ after[k].updated_at = now
        /\ after[k].updated_at >= before[k].updated_at
        /\ store'[key] = after

\* C39: a successful update changes the fields of the patch and updated_at
\* of the matched record and nothing else: not its id, created_at or place
\* in the list, and no other record; updated_at does not decrease (Tab,
\* Collection, Space).
C39_UpdateFrame ==
    [][/\ \A id \in Ids, input \in TabPatches :
             (last'.op = "updateTab" /\ last'.status = "ok"
                /\ UpdateTab(1, id, input))
             => Framed("tabs", id, input)
       /\ \A id \in Ids, input \in CollectionPatches :
             (last'.op = "updateCollection" /\ last'.status = "ok"
                /\ UpdateCollection(1, id, input))
             => Framed("collections", id, input)
       /\ \A id \in Ids, input \in SpacePatches :
             (last'.op = "updateSpace" /\ last'.status = "ok"
                /\ UpdateSpace(1, id, input))
             => Framed("spaces", id, input)]_vars

\* the first of two Tabs was updated at a later instant than it was
\* created at
C39_Witness ==
    /\ last.op = "updateTab"
    /\ last.status = "ok"
    /\ Len(mem[1].tabs) = 2
    /\ mem[1].tabs[1].updated_at > mem[1].tabs[1].created_at
    /\ mem[1].tabs[2].updated_at = mem[1].tabs[2].created_at

====
